---- MODULE Spec2Model ----
(***************************************************************************)
(* A model of the Verde Valley Stays concierge bot: the agent tool-use     *)
(* loop (agent/runner.py), the tool dispatcher (agent/tools.py), the       *)
(* calendar and knowledge-base services it dispatches to, the context      *)
(* window store (services/context.py) and the message pipeline             *)
(* (bot/handlers.py).                                                      *)
(*                                                                         *)
(* Strings are sequences of tokens: " " is a whitespace character, every   *)
(* other token is a run of non-whitespace text.  A Python dict is a        *)
(* sequence of entries [k, v, q] in insertion order (q: the value is a     *)
(* string, so JSON quotes it; otherwise v is the literal true / false).    *)
(***************************************************************************)
EXTENDS Integers, Sequences, FiniteSets, TLC

\* ------------------------------------------------------------------ bounds

\* Rounds of one agent turn that depart from the default round: a response
\* other than the default tool call or the default final answer, or a tool
\* execution whose service fails or finds nothing.
MaxVaried == 1

\* --------------------------------------------------------------- strings

Whitespace == {" ", "\n", "\t"}

RECURSIVE lstrip(_)
lstrip(s) ==
  IF s = <<>> THEN <<>>
  ELSE IF Head(s) \in Whitespace THEN lstrip(Tail(s)) ELSE s

RECURSIVE rstrip(_)
rstrip(s) ==
  IF s = <<>> THEN <<>>
  ELSE IF s[Len(s)] \in Whitespace THEN rstrip(SubSeq(s, 1, Len(s) - 1)) ELSE s

\* str.strip()
strip(s) == rstrip(lstrip(s))

\* sep.join(parts): parts is a sequence of strings
RECURSIVE join(_, _)
join(sep, parts) ==
  IF parts = <<>> THEN <<>>
  ELSE IF Len(parts) = 1 THEN parts[1]
  ELSE parts[1] \o sep \o join(sep, Tail(parts))

\* A dict entry with a string value, and one with a boolean value.
SEntry(key, val) == [k |-> key, v |-> val, q |-> TRUE]
BEntry(key, b) == [k |-> key, v |-> IF b THEN <<"true">> ELSE <<"false">>, q |-> FALSE]

JsonEntry(e) ==
  <<"\"", e.k, "\"", ": ">> \o (IF e.q THEN <<"\"">> \o e.v \o <<"\"">> ELSE e.v)

\* json.dumps(d) for a dict of strings and booleans
json_dumps(d) ==
  <<"{">> \o join(<<", ">>, [i \in 1..Len(d) |-> JsonEntry(d[i])]) \o <<"}">>

\* ---------------------------------------------------------------- config

CONTEXT_MESSAGE_LIMIT == 10

\* The six properties of CALENDAR_MAP, each with its calendar.
CALENDAR_MAP ==
  [p \in {"The Glasshouse", "The River Cottage", "The Olive Lodge",
          "The Barn Loft", "The Potter's Cabin", "The Stargazer's Pod"} |->
     CASE p = "The Glasshouse" -> "cal-glasshouse"
       [] p = "The River Cottage" -> "cal-river-cottage"
       [] p = "The Olive Lodge" -> "cal-olive-lodge"
       [] p = "The Barn Loft" -> "cal-barn-loft"
       [] p = "The Potter's Cabin" -> "cal-potters-cabin"
       [] p = "The Stargazer's Pod" -> "cal-stargazers-pod"]

CalendarIds == {CALENDAR_MAP[p] : p \in DOMAIN CALENDAR_MAP}

\* A JSON array or object given as an argument value: Python receives a
\* list or dict, which is not hashable.
Unhashable == {"[]"}

\* Dates in YYYY-MM-DD form, in calendar order.
Dates == <<"2025-12-04", "2025-12-05", "2025-12-06">>
DateSet == {Dates[i] : i \in 1..Len(Dates)}
DayOf(d) == CHOOSE i \in 1..Len(Dates) : Dates[i] = d

\* ------------------------------------------------- calendar (services/calendar.py)

\* The outcome of a call: what it returns (a dict, or for the knowledge base
\* a string), whether it raised instead, the exception text, the calendars
\* afterwards, and the external API calls it made.
Outcome(r, c, a) == [raised |-> FALSE, ret |-> r, exc |-> <<>>, cal |-> c, api |-> a]
Raised(e, c, a) == [raised |-> TRUE, ret |-> <<>>, exc |-> e, cal |-> c, api |-> a]

\* A lookup that falls back on the first calendar for a name it does not know.
_resolve_calendar_defaulting(property_name) ==
  IF property_name \in DOMAIN CALENDAR_MAP THEN CALENDAR_MAP[property_name]
  ELSE "cal-glasshouse"

\* config.CALENDAR_MAP.get(property_name): "" stands for None
_resolve_calendar(property_name) ==
  IF property_name \in DOMAIN CALENDAR_MAP THEN CALENDAR_MAP[property_name] ELSE ""

\* events().list(calendarId, timeMin, timeMax[, q]): the events of the calendar
\* that overlap the range, in stored order.  An all-day event covers the days
\* start .. end - 1; lastDay is the last day the range reaches into.

\* A search that does not look at the text q.
QMatchesAnything(ev, q) == TRUE

\* q: the event carries the text.
QMatches(ev, q) == q = "" \/ q \in {ev.guest, ev.email, ev.phone}

EventsList(events, firstDay, lastDay, q) ==
  SelectSeq(events, LAMBDA ev :
     /\ DayOf(ev.end) > firstDay
     /\ DayOf(ev.start) <= lastDay
     /\ QMatches(ev, q))

\* A delete that takes with it every event of the same guest.
RemoveGuestOf(events, id) ==
  LET guests == {events[k].guest : k \in {j \in 1..Len(events) : events[j].id = id}}
  IN SelectSeq(events, LAMBDA ev : ev.guest \notin guests)

RECURSIVE RemoveId(_, _)
RemoveId(events, id) ==
  IF events = <<>> THEN <<>>
  ELSE IF Head(events).id = id THEN Tail(events)
  ELSE <<Head(events)>> \o RemoveId(Tail(events), id)

NextEventId(cal) ==
  LET used == UNION {{cal[c][i].id : i \in 1..Len(cal[c])} : c \in DOMAIN cal}
  IN CHOOSE n \in 1..(Cardinality(used) + 1) : n \notin used

\* A check that answers available when the calendar cannot be asked.
check_availability_failing_open(property_name, check_in_date, check_out_date, cal, fault) ==
  LET calendar_id == _resolve_calendar(property_name)
      call == <<[op |-> "list", cal |-> calendar_id]>>
  IN
  IF property_name \in Unhashable THEN Raised(<<"unhashable type: 'list'">>, cal, <<>>)
  ELSE IF calendar_id = "" THEN
    Outcome(<<BEntry("available", FALSE),
              SEntry("message", <<"Unknown property: ", property_name,
                                  ". Please choose from the available properties.">>)>>,
            cal, <<>>)
  ELSE IF \/ fault = 1
          \/ check_in_date \notin DateSet
          \/ check_out_date \notin DateSet
          \/ DayOf(check_out_date) < DayOf(check_in_date) THEN
    Outcome(<<BEntry("available", TRUE),
              SEntry("message", <<"Unable to check availability right now. Please try again.">>)>>,
            cal, call)
  ELSE
    LET events == EventsList(cal[calendar_id], DayOf(check_in_date), DayOf(check_out_date), "")
    IN IF events = <<>> THEN
         Outcome(<<BEntry("available", TRUE),
                   SEntry("property", <<property_name>>),
                   SEntry("check_in", <<check_in_date>>),
                   SEntry("check_out", <<check_out_date>>),
                   SEntry("message", <<"Yes! ", property_name, " is available from ",
                                       check_in_date, " to ", check_out_date, ".">>)>>,
                 cal, call)
       ELSE
         Outcome(<<BEntry("available", FALSE),
                   SEntry("property", <<property_name>>),
                   SEntry("check_in", <<check_in_date>>),
                   SEntry("check_out", <<check_out_date>>),
                   SEntry("message", <<"Sorry, ", property_name, " is already booked from ",
                                       check_in_date, " to ", check_out_date, ". ",
                                       "Would you like to check other dates or explore our other properties?">>)>>,
                 cal, call)

\* check_availability(property_name, check_in_date, check_out_date).
\* fault = 1: the calendar call (or building the service) raises.
check_availability(property_name, check_in_date, check_out_date, cal, fault) ==
  LET calendar_id == _resolve_calendar(property_name)
      call == <<[op |-> "list", cal |-> calendar_id]>>
  IN
  IF property_name \in Unhashable THEN Raised(<<"unhashable type: 'list'">>, cal, <<>>)
  ELSE IF calendar_id = "" THEN
    Outcome(<<BEntry("available", FALSE),
              SEntry("message", <<"Unknown property: ", property_name,
                                  ". Please choose from the available properties.">>)>>,
            cal, <<>>)
  ELSE IF \/ fault = 1
          \/ check_in_date \notin DateSet
          \/ check_out_date \notin DateSet
          \/ DayOf(check_out_date) < DayOf(check_in_date) THEN
    Outcome(<<BEntry("available", FALSE),
              SEntry("message", <<"Unable to check availability right now. Please try again.">>)>>,
            cal, call)
  ELSE
    LET events == EventsList(cal[calendar_id], DayOf(check_in_date), DayOf(check_out_date), "")
    IN IF events = <<>> THEN
         Outcome(<<BEntry("available", TRUE),
                   SEntry("property", <<property_name>>),
                   SEntry("check_in", <<check_in_date>>),
                   SEntry("check_out", <<check_out_date>>),
                   SEntry("message", <<"Yes! ", property_name, " is available from ",
                                       check_in_date, " to ", check_out_date, ".">>)>>,
                 cal, call)
       ELSE
         Outcome(<<BEntry("available", FALSE),
                   SEntry("property", <<property_name>>),
                   SEntry("check_in", <<check_in_date>>),
                   SEntry("check_out", <<check_out_date>>),
                   SEntry("message", <<"Sorry, ", property_name, " is already booked from ",
                                       check_in_date, " to ", check_out_date, ". ",
                                       "Would you like to check other dates or explore our other properties?">>)>>,
                 cal, call)

\* create_booking(property_name, check_in_date, check_out_date, guest_name,
\* guest_email, guest_phone).  fault = 1: the insert raises.
create_booking(property_name, check_in_date, check_out_date, guest_name, guest_email, guest_phone, cal, fault) ==
  LET calendar_id == _resolve_calendar(property_name)
      call == <<[op |-> "insert", cal |-> calendar_id]>>
  IN
  IF property_name \in Unhashable THEN Raised(<<"unhashable type: 'list'">>, cal, <<>>)
  ELSE IF calendar_id = "" THEN
    Outcome(<<BEntry("success", FALSE),
              SEntry("message", <<"Unknown property: ", property_name, ".">>)>>,
            cal, <<>>)
  ELSE IF \/ fault = 1
          \/ check_in_date \notin DateSet
          \/ check_out_date \notin DateSet
          \/ DayOf(check_out_date) < DayOf(check_in_date) THEN
    Outcome(<<BEntry("success", FALSE),
              SEntry("message", <<"Unable to create the booking right now. Please try again.">>)>>,
            cal, call)
  ELSE
    LET event_id == NextEventId(cal)
        event == [id |-> event_id, guest |-> guest_name, email |-> guest_email,
                  phone |-> guest_phone, start |-> check_in_date, end |-> check_out_date]
    IN Outcome(<<BEntry("success", TRUE),
                 SEntry("booking_id", <<ToString(event_id)>>),
                 SEntry("property", <<property_name>>),
                 SEntry("guest_name", <<guest_name>>),
                 SEntry("check_in", <<check_in_date>>),
                 SEntry("check_out", <<check_out_date>>),
                 SEntry("message", <<"Booking confirmed! ", guest_name, " has booked ",
                                     property_name, " from ", check_in_date, " to ",
                                     check_out_date, ". Confirmation ID: ",
                                     ToString(event_id)>>)>>,
               [cal EXCEPT ![calendar_id] = Append(@, event)], call)

\* cancel_booking(property_name, guest_name, check_in_date).
\* fault = 1: the list call raises; fault = 2: the delete call raises.
cancel_booking(property_name, guest_name, check_in_date, cal, fault) ==
  LET calendar_id == _resolve_calendar(property_name)
      listCall == <<[op |-> "list", cal |-> calendar_id]>>
      deleteCall == <<[op |-> "delete", cal |-> calendar_id]>>
      unable == <<BEntry("success", FALSE),
                  SEntry("message", <<"Unable to cancel the booking right now. Please try again.">>)>>
  IN
  IF property_name \in Unhashable THEN Raised(<<"unhashable type: 'list'">>, cal, <<>>)
  ELSE IF calendar_id = "" THEN
    Outcome(<<BEntry("success", FALSE),
              SEntry("message", <<"Unknown property: ", property_name, ".">>)>>,
            cal, <<>>)
  ELSE IF check_in_date \notin DateSet THEN Outcome(unable, cal, <<>>)
  ELSE IF fault = 1 THEN Outcome(unable, cal, listCall)
  ELSE
    LET events == EventsList(cal[calendar_id], DayOf(check_in_date), DayOf(check_in_date),
                             guest_name)
    IN IF events = <<>> THEN
         Outcome(<<BEntry("success", FALSE),
                   SEntry("property", <<property_name>>),
                   SEntry("guest_name", <<guest_name>>),
                   SEntry("check_in", <<check_in_date>>),
                   SEntry("message", <<"Sorry, I couldn't find a booking for ", guest_name,
                                       " at ", property_name, " on ", check_in_date, ". ",
                                       "Please check the details and try again, or contact us directly for assistance.">>)>>,
                 cal, listCall)
       ELSE IF fault = 2 THEN Outcome(unable, cal, listCall \o deleteCall)
       ELSE
         Outcome(<<BEntry("success", TRUE),
                   SEntry("property", <<property_name>>),
                   SEntry("guest_name", <<guest_name>>),
                   SEntry("check_in", <<check_in_date>>),
                   SEntry("message", <<"Booking cancelled successfully! ", guest_name,
                                       "'s reservation for ", property_name, " on ",
                                       check_in_date, " has been cancelled.">>)>>,
                 [cal EXCEPT ![calendar_id] = RemoveId(@, events[1].id)],
                 listCall \o deleteCall)

\* ------------------------------------------------ knowledge base (services/rag.py)

\* A search without the except clause: the exception of a failing call leaves
\* the function.
search_knowledge_base_uncaught(query, kb, cal, fault) ==
  IF fault = 1 THEN
    Raised(<<"Connection error.">>, cal, <<[op |-> "embed", cal |-> ""]>>)
  ELSE IF fault = 2 THEN
    Raised(<<"Connection error.">>, cal,
           <<[op |-> "embed", cal |-> ""], [op |-> "match_documents", cal |-> ""]>>)
  ELSE IF kb = <<>> THEN
    Outcome(<<"No relevant information found in the knowledge base.">>, cal,
            <<[op |-> "embed", cal |-> ""], [op |-> "match_documents", cal |-> ""]>>)
  ELSE
    Outcome(join(<<"\n\n---\n\n">>, SelectSeq(kb, LAMBDA c : c # <<>>)), cal,
            <<[op |-> "embed", cal |-> ""], [op |-> "match_documents", cal |-> ""]>>)

\* search_knowledge_base(query).  kb: the content of the rows the similarity
\* search returns (a row without content has content <<>>).
\* fault = 1: the embedding call raises; fault = 2: the search call raises.
search_knowledge_base(query, kb, cal, fault) ==
  IF fault = 1 THEN
    Outcome(<<"Unable to search the knowledge base right now.">>, cal, <<[op |-> "embed", cal |-> ""]>>)
  ELSE IF fault = 2 THEN
    Outcome(<<"Unable to search the knowledge base right now.">>, cal,
            <<[op |-> "embed", cal |-> ""], [op |-> "match_documents", cal |-> ""]>>)
  ELSE IF kb = <<>> THEN
    Outcome(<<"No relevant information found in the knowledge base.">>, cal,
            <<[op |-> "embed", cal |-> ""], [op |-> "match_documents", cal |-> ""]>>)
  ELSE
    Outcome(join(<<"\n\n---\n\n">>, SelectSeq(kb, LAMBDA c : c # <<>>)), cal,
            <<[op |-> "embed", cal |-> ""], [op |-> "match_documents", cal |-> ""]>>)

\* ------------------------------------------------ tool dispatcher (agent/tools.py)

\* TOOL_SCHEMAS: the declared tools and the fields each schema requires.
TOOL_SCHEMAS ==
  [search_knowledge_base |-> <<"query">>,
   check_availability |-> <<"property_name", "check_in_date", "check_out_date">>,
   create_booking |-> <<"property_name", "check_in_date", "check_out_date",
                        "guest_name", "guest_email">>,
   cancel_booking |-> <<"property_name", "guest_name", "check_in_date">>]

ToolNames == DOMAIN TOOL_SCHEMAS

\* The fields execute_tool reads with tool_input[key], in evaluation order.
KeyedFields(tool_name) ==
  CASE tool_name = "search_knowledge_base" -> <<"query">>
    [] tool_name = "check_availability" -> <<"property_name", "check_in_date", "check_out_date">>
    [] tool_name = "create_booking" -> <<"property_name", "check_in_date", "check_out_date",
                                         "guest_name">>
    [] tool_name = "cancel_booking" -> <<"property_name", "guest_name", "check_in_date">>
    [] OTHER -> <<>>

\* The first field read by key that tool_input lacks (0: none): the lookup
\* that raises KeyError.
FirstMissing(tool_name, tool_input) ==
  LET ks == KeyedFields(tool_name)
      missing == {i \in 1..Len(ks) : ks[i] \notin DOMAIN tool_input}
  IN IF missing = {} THEN 0 ELSE CHOOSE i \in missing : \A j \in missing : i <= j

\* tool_input.get(key, "")
InputGet(tool_input, key) == IF key \in DOMAIN tool_input THEN tool_input[key] ELSE ""

\* The call of the backing function, once every keyed field has been read.
Dispatch(tool_name, tool_input, kb, cal, fault) ==
  CASE tool_name = "search_knowledge_base" ->
         search_knowledge_base(tool_input["query"], kb, cal, fault)
    [] tool_name = "check_availability" ->
         check_availability(tool_input["property_name"], tool_input["check_in_date"],
                            tool_input["check_out_date"], cal, fault)
    [] tool_name = "create_booking" ->
         create_booking(tool_input["property_name"], tool_input["check_in_date"],
                        tool_input["check_out_date"], tool_input["guest_name"],
                        InputGet(tool_input, "guest_email"),
                        InputGet(tool_input, "guest_phone"), cal, fault)
    [] tool_name = "cancel_booking" ->
         cancel_booking(tool_input["property_name"], tool_input["guest_name"],
                        tool_input["check_in_date"], cal, fault)

\* The try block of execute_tool: the value it binds to result (a dict or a
\* string) or the exception it raises, the calendars afterwards, the backing
\* functions invoked and the external API calls made.
ToolResult(isdict, val, cal, invoked, api) ==
  [raised |-> FALSE, exc |-> <<>>, isdict |-> isdict, val |-> val, cal |-> cal,
   invoked |-> invoked, api |-> api]

ToolRaised(exc, cal, invoked, api) ==
  [raised |-> TRUE, exc |-> exc, isdict |-> FALSE, val |-> <<>>, cal |-> cal,
   invoked |-> invoked, api |-> api]

\* The result bound from the outcome o of the backing function.
FromOutcome(tool_name, o) ==
  IF o.raised THEN ToolRaised(o.exc, o.cal, <<tool_name>>, o.api)
  ELSE ToolResult(tool_name # "search_knowledge_base", o.ret, o.cal, <<tool_name>>, o.api)

\* m: the first keyed field that is missing (0: none).
ToolBodyAt(m, tool_name, tool_input, kb, cal, fault) ==
  IF m # 0 THEN
    \* str(KeyError(key)) is the key in quotes
    ToolRaised(<<"'", KeyedFields(tool_name)[m], "'">>, cal, <<>>, <<>>)
  ELSE FromOutcome(tool_name, Dispatch(tool_name, tool_input, kb, cal, fault))

\* A dispatcher whose else branch raises for a name it does not know.
ToolBodyUnknownRaises(tool_name, tool_input, kb, cal, fault) ==
  IF tool_name \notin ToolNames THEN
    ToolRaised(<<"Unknown tool: ", tool_name>>, cal, <<>>, <<>>)
  ELSE ToolBodyAt(FirstMissing(tool_name, tool_input), tool_name, tool_input, kb, cal, fault)

ToolBody(tool_name, tool_input, kb, cal, fault) ==
  IF tool_name \notin ToolNames THEN
    ToolResult(TRUE, <<SEntry("error", <<"Unknown tool: ", tool_name>>)>>, cal, <<>>, <<>>)
  ELSE ToolBodyAt(FirstMissing(tool_name, tool_input), tool_name, tool_input, kb, cal, fault)

\* The string execute_tool returns for a result: json.dumps of a dict, str of
\* anything else.
ToolString(r) == IF r.isdict THEN json_dumps(r.val) ELSE r.val

\* What leaves execute_tool for a result b of its try block.
Returned(b) ==
  [raised |-> FALSE, out |-> ToolString(b), cal |-> b.cal, invoked |-> b.invoked,
   api |-> b.api]

\* except Exception as e: result = {"error": f"Tool failed: {str(e)}"}
Caught(b) ==
  IF b.raised
  THEN ToolResult(TRUE, <<SEntry("error", <<"Tool failed: ">> \o b.exc)>>,
                  b.cal, b.invoked, b.api)
  ELSE b

Uncaught(b) ==
  IF b.raised
  THEN [raised |-> TRUE, out |-> <<>>, cal |-> b.cal, invoked |-> b.invoked, api |-> b.api]
  ELSE Returned(b)

\* A dispatcher without the except clause: the exception leaves execute_tool.
execute_tool_uncaught(tool_name, tool_input, kb, cal, fault) ==
  Uncaught(ToolBody(tool_name, tool_input, kb, cal, fault))

\* execute_tool(tool_name, tool_input): the string handed back to the model
\* (out), with the effects of the call.  raised: an exception left the function.
execute_tool(tool_name, tool_input, kb, cal, fault) ==
  Returned(Caught(ToolBody(tool_name, tool_input, kb, cal, fault)))

\* ------------------------------------------------------------------- state

VARIABLES
  \* run_agent (agent/runner.py)
  apc,            \* where run_agent is: "idle", "loop", "tools", "returned", "raised"
  user_message,   \* its first argument
  system_prompt,  \* the system prompt built from recent_conversation
  messages,       \* the message list
  iteration,      \* the loop counter
  response,       \* the model response being handled
  block,          \* index of the next content block of the for loop
  tool_results,   \* the results collected in this iteration
  agent_result,   \* the string run_agent returned
  \* the calendar service
  calendar,       \* calendar id -> sequence of events
  \* what an observer of the turn records
  model_calls,    \* per model call of the turn: how many messages were sent, and
                  \* whether the call answered (ok) or raised
  executions,     \* the tool executions of the turn, in order of start
  varied          \* rounds of the turn that were not the default round

agentVars == <<apc, user_message, system_prompt, messages, iteration, response, block,
               tool_results, agent_result, calendar, model_calls, executions, varied>>

VARIABLES
  \* the datastore (services/context.py)
  minimal_context,  \* the rows of the rolling window table
  clock,            \* the time the next insert is stamped with
  \* load_context's caller
  context_messages, \* what the last load_context returned
  \* what an observer of the store records
  history,          \* user id -> every entry appended to that user's window, in order
  dirty,            \* user id -> an append to the window has not been followed by a trim
  load_info         \* the user, history length and dirtiness at the last load

storeVars == <<minimal_context, clock, context_messages, history, dirty, load_info>>

VARIABLES
  \* handle_message (bot/handlers.py)
  hpc,                  \* the step the handler is at ("idle": no update is being handled)
  update,               \* the update being handled: its user and text
  recent_conversation,  \* the formatted context handed to run_agent
  reply,                \* what run_agent returned
  \* the datastore and the chat transport
  users,                \* the user ids of the users table
  chat_logs,            \* the rows of the permanent log, in insertion order
  outbox,               \* the messages sent to chats, in order
  \* what an observer records
  turns,                \* updates received so far
  handler_raised,       \* an exception left handle_message
  trace                 \* per step of the latest turn: the turn, the step, and
                        \* whether it completed (ok) or raised

pipeVars == <<hpc, update, recent_conversation, reply, users, chat_logs, outbox, turns,
              handler_raised, trace>>

VARIABLES
  \* two turns of one user whose datastore calls interleave
  tpc,    \* turn -> the step the turn is at
  peak    \* the most rows the user's window has held

turnVars == <<tpc, peak>>

\* ------------------------------------------------- the model stub's answers

max_iterations == 10

FALLBACK == <<"I'm sorry, I had trouble processing that. Please try again.">>

TextBlock(t) == [type |-> "text", text |-> t]
ThinkingBlock == [type |-> "thinking", thinking |-> <<"hmm">>]
ToolUseBlock(id, call) == [type |-> "tool_use", id |-> id, name |-> call.name, input |-> call.input]

Call(name, input) == [name |-> name, input |-> input]

DefaultCall == Call("search_knowledge_base", [query |-> "pet policy"])

Booking == [property_name |-> "The Glasshouse", check_in_date |-> "2025-12-04",
            check_out_date |-> "2025-12-05", guest_name |-> "Ann",
            guest_email |-> "ann@example.com"]

Without(f, key) == [x \in DOMAIN f \ {key} |-> f[x]]

\* Tool calls a response may carry besides the default one.
VariedCalls ==
  { Call("foo", [query |-> "pet policy"]),
    Call("search_knowledge_base", [question |-> "pet policy"]),
    Call("check_availability", Without(Without(Booking, "guest_name"), "guest_email")),
    Call("check_availability", [property_name |-> "[]", check_in_date |-> "2025-12-04",
                                check_out_date |-> "2025-12-05"]),
    Call("create_booking", Booking),
    Call("create_booking", Without(Booking, "guest_name")),
    Call("cancel_booking", [property_name |-> "The Glasshouse", guest_name |-> "Ann",
                            check_in_date |-> "2025-12-04"]) }

\* Tool calls that responses with several calls are made of.
PairCalls ==
  { Call("foo", [query |-> "pet policy"]),
    Call("create_booking", Without(Booking, "guest_name")) }

\* The ids the model gives the tool calls of its it-th response.
CallId(it, k) == it * 10 + k

DefaultResponse(it) ==
  [stop_reason |-> "tool_use", content |-> <<ToolUseBlock(CallId(it, 1), DefaultCall)>>]

VariedResponses(it) ==
  { [stop_reason |-> "tool_use", content |-> <<ToolUseBlock(CallId(it, 1), c)>>] :
      c \in VariedCalls }
  \cup
  { [stop_reason |-> "tool_use",
     content |-> <<TextBlock(<<"Let", " ", "me", " ", "check.">>),
                   ToolUseBlock(CallId(it, 1), c[1]),
                   ToolUseBlock(CallId(it, 2), c[2])>>] : c \in PairCalls \X PairCalls }

\* Contents of a final answer.
EndContents ==
  { <<TextBlock(<<"Hello">>), TextBlock(<<"there">>)>>,
    <<TextBlock(<<" ", "Hi", "\n">>)>>,
    <<ThinkingBlock, TextBlock(<<"Done">>)>>,
    <<TextBlock(<<"All">>), ToolUseBlock(0, DefaultCall), TextBlock(<<"set", " ">>)>>,
    <<>> }

EndResponses == { [stop_reason |-> "end_turn", content |-> c] : c \in EndContents }

DefaultEnd ==
  [stop_reason |-> "end_turn", content |-> <<TextBlock(<<"Hello">>), TextBlock(<<"there">>)>>]

\* Answers whose stop reason is neither end_turn nor tool_use.
OtherResponses ==
  { [stop_reason |-> "max_tokens", content |-> <<TextBlock(<<"The", " ">>)>>],
    [stop_reason |-> "stop_sequence",
     content |-> <<ToolUseBlock(0, DefaultCall)>>] }

NoResponse == [stop_reason |-> "", content |-> <<>>]

\* The rows the knowledge-base search returns by default.
DefaultKb == << <<"Pets", " ", "welcome.">>, <<>>, <<"Check-in", " ", "3pm.">> >>

UserTexts == { <<"book", " ", "The Glasshouse">> }

RecentConversations == { <<"user: hi", "\n", "assistant: Hello!">> }

EmptyCalendars == [c \in CalendarIds |-> <<>>]

\* Calendars as a turn may find them: empty, or holding a booking.
InitialCalendars ==
  { EmptyCalendars,
    [EmptyCalendars EXCEPT !["cal-glasshouse"] =
       << [id |-> 1, guest |-> "Ann", email |-> "ann@example.com", phone |-> "",
           start |-> "2025-12-04", end |-> "2025-12-05"] >>] }

\* ------------------------------------------------ run_agent (agent/runner.py)

\* _load_system_prompt(recent_conversation)
_load_system_prompt(recent) ==
  <<"Recent Conversation:\n">> \o recent \o <<"\n\n", "<base prompt>">>

\* The while condition.
LoopContinuesInclusive(it) == it <= max_iterations
LoopContinues(it) == it < max_iterations

\* [b.text for b in response.content if hasattr(b, "text")]
text_blocks(content) ==
  LET withText == SelectSeq(content, LAMBDA b : "text" \in DOMAIN b)
  IN [i \in 1..Len(withText) |-> withText[i].text]

\* " ".join(text_blocks).strip()
FinalTextUnstripped(content) == join(<<" ">>, text_blocks(content))
FinalText(content) == strip(join(<<" ">>, text_blocks(content)))

\* The tool_result entry appended for a tool_use block.
ToolResultFirstId(content, b, out) ==
  [type |-> "tool_result",
   tool_use_id |-> SelectSeq(content, LAMBDA x : x.type = "tool_use")[1].id,
   content |-> out]
ToolResultEntry(content, b, out) ==
  [type |-> "tool_result", tool_use_id |-> b.id, content |-> out]

\* The rounds of the service behind a tool execution: which external call
\* fails (0: none) and what the knowledge base holds.
DefaultEnv == [fault |-> 0, kb |-> DefaultKb]
Envs == [fault : 0..2, kb : {DefaultKb}] \cup {[fault |-> 0, kb |-> <<>>]}

\* A start that puts the recent conversation in front of the user's message.
AgentStartWithContext(um, rc) ==
  /\ apc = "idle"
  /\ apc' = "loop"
  /\ user_message' = um
  /\ system_prompt' = _load_system_prompt(rc)
  /\ messages' = <<[role |-> "user", content |-> rc \o um]>>
  /\ iteration' = 0
  /\ UNCHANGED <<response, block, tool_results, agent_result, calendar, model_calls,
                 executions, varied>>

\* run_agent is called: lines 50-57.
AgentStart(um, rc) ==
  /\ apc = "idle"
  /\ apc' = "loop"
  /\ user_message' = um
  /\ system_prompt' = _load_system_prompt(rc)
  /\ messages' = <<[role |-> "user", content |-> um]>>
  /\ iteration' = 0
  /\ UNCHANGED <<response, block, tool_results, agent_result, calendar, model_calls,
                 executions, varied>>

\* A loop that goes on to the next iteration after an unexpected stop reason.
HandleResponseContinuing(r) ==
  /\ response' = r
  /\ IF r.stop_reason = "end_turn" THEN
       /\ agent_result' = FinalText(r.content)
       /\ apc' = "returned"
       /\ UNCHANGED <<messages, block, tool_results>>
     ELSE IF r.stop_reason = "tool_use" THEN
       /\ messages' = Append(messages, [role |-> "assistant", content |-> r.content])
       /\ tool_results' = <<>>
       /\ block' = 1
       /\ apc' = "tools"
       /\ UNCHANGED agent_result
     ELSE
       /\ apc' = "loop"
       /\ UNCHANGED <<messages, block, tool_results, agent_result>>

\* What run_agent does with a response: lines 71-98.
HandleResponse(r) ==
  /\ response' = r
  /\ IF r.stop_reason = "end_turn" THEN
       /\ agent_result' = FinalText(r.content)
       /\ apc' = "returned"
       /\ UNCHANGED <<messages, block, tool_results>>
     ELSE IF r.stop_reason = "tool_use" THEN
       /\ messages' = Append(messages, [role |-> "assistant", content |-> r.content])
       /\ tool_results' = <<>>
       /\ block' = 1
       /\ apc' = "tools"
       /\ UNCHANGED agent_result
     ELSE
       /\ agent_result' = FALLBACK
       /\ apc' = "returned"
       /\ UNCHANGED <<messages, block, tool_results>>

\* One pass of the while loop up to the handling of the response: the model
\* is called (lines 59-69) and answers.
ModelAnswers ==
  /\ apc = "loop"
  /\ LoopContinues(iteration)
  /\ iteration' = iteration + 1
  /\ model_calls' = Append(model_calls, [sent |-> Len(messages), ok |-> TRUE])
  /\ \E r \in {DefaultResponse(iteration + 1), DefaultEnd}
                \cup (IF varied < MaxVaried
                      THEN VariedResponses(iteration + 1) \cup EndResponses \cup OtherResponses
                      ELSE {}) :
       /\ HandleResponse(r)
       /\ varied' = IF r \in {DefaultResponse(iteration + 1), DefaultEnd}
                    THEN varied ELSE varied + 1
  /\ UNCHANGED <<user_message, system_prompt, calendar, executions>>

\* A loop that catches the failure of the model call and gives the fallback.
ModelFailsCaught ==
  /\ apc = "loop"
  /\ LoopContinues(iteration)
  /\ iteration' = iteration + 1
  /\ model_calls' = Append(model_calls, [sent |-> Len(messages), ok |-> FALSE])
  /\ apc' = "returned"
  /\ agent_result' = FALLBACK
  /\ UNCHANGED <<user_message, system_prompt, messages, response, block, tool_results,
                 calendar, executions, varied>>

\* A loop that calls the model again when the call raises.
ModelFailsRetrying ==
  /\ apc = "loop"
  /\ LoopContinues(iteration)
  /\ Len(model_calls) <= max_iterations
  /\ model_calls' = Append(model_calls, [sent |-> Len(messages), ok |-> FALSE])
  /\ UNCHANGED <<apc, user_message, system_prompt, messages, iteration, response, block,
                 tool_results, agent_result, calendar, executions, varied>>

\* The model call raises (network, auth, rate limit): nothing catches it.
ModelFails ==
  /\ apc = "loop"
  /\ LoopContinues(iteration)
  /\ iteration' = iteration + 1
  /\ model_calls' = Append(model_calls, [sent |-> Len(messages), ok |-> FALSE])
  /\ apc' = "raised"
  /\ UNCHANGED <<user_message, system_prompt, messages, response, block, tool_results,
                 agent_result, calendar, executions, varied>>

\* The while condition fails: line 100.
LoopExhausted ==
  /\ apc = "loop"
  /\ ~LoopContinues(iteration)
  /\ agent_result' = FALLBACK
  /\ apc' = "returned"
  /\ UNCHANGED <<user_message, system_prompt, messages, iteration, response, block,
                 tool_results, calendar, model_calls, executions, varied>>

\* The for loop meets a block that is no tool_use block: line 84.
SkipBlock ==
  /\ apc = "tools"
  /\ block <= Len(response.content)
  /\ response.content[block].type # "tool_use"
  /\ block' = block + 1
  /\ UNCHANGED <<apc, user_message, system_prompt, messages, iteration, response,
                 tool_results, agent_result, calendar, model_calls, executions, varied>>

\* A loop that puts each result in front of the ones collected so far.
ExecutedPrepending(b, x) ==
  /\ calendar' = x.cal
  /\ executions' = Append(executions,
                          [id |-> b.id, name |-> b.name, input |-> b.input, block |-> block,
                           iteration |-> iteration, raised |-> x.raised,
                           invoked |-> x.invoked, api |-> x.api, out |-> x.out])
  /\ IF x.raised THEN
       /\ apc' = "raised"
       /\ UNCHANGED <<block, tool_results>>
     ELSE
       /\ tool_results' = <<ToolResultEntry(response.content, b, x.out)>> \o tool_results
       /\ block' = block + 1
       /\ UNCHANGED apc

\* The for loop executes a tool_use block b, and x is what execute_tool did:
\* lines 84-90.
Executed(b, x) ==
  /\ calendar' = x.cal
  /\ executions' = Append(executions,
                          [id |-> b.id, name |-> b.name, input |-> b.input, block |-> block,
                           iteration |-> iteration, raised |-> x.raised,
                           invoked |-> x.invoked, api |-> x.api, out |-> x.out])
  /\ IF x.raised THEN
       /\ apc' = "raised"
       /\ UNCHANGED <<block, tool_results>>
     ELSE
       /\ tool_results' = Append(tool_results, ToolResultEntry(response.content, b, x.out))
       /\ block' = block + 1
       /\ UNCHANGED apc

ExecuteBlock ==
  /\ apc = "tools"
  /\ block <= Len(response.content)
  /\ response.content[block].type = "tool_use"
  /\ \E env \in {DefaultEnv} \cup (IF varied < MaxVaried THEN Envs ELSE {}) :
       /\ varied' = IF env = DefaultEnv THEN varied ELSE varied + 1
       /\ Executed(response.content[block],
                   execute_tool(response.content[block].name, response.content[block].input,
                                env.kb, calendar, env.fault))
  /\ UNCHANGED <<user_message, system_prompt, messages, iteration, response,
                 agent_result, model_calls>>

\* A loop that drops the results of the round that spends the budget.
FeedResultsUnlessLast ==
  /\ apc = "tools"
  /\ block > Len(response.content)
  /\ messages' = IF iteration = max_iterations THEN messages
                 ELSE Append(messages, [role |-> "user", content |-> tool_results])
  /\ apc' = "loop"
  /\ UNCHANGED <<user_message, system_prompt, iteration, response, block, tool_results,
                 agent_result, calendar, model_calls, executions, varied>>

\* The for loop is over: lines 92-94.
FeedResults ==
  /\ apc = "tools"
  /\ block > Len(response.content)
  /\ messages' = Append(messages, [role |-> "user", content |-> tool_results])
  /\ apc' = "loop"
  /\ UNCHANGED <<user_message, system_prompt, iteration, response, block, tool_results,
                 agent_result, calendar, model_calls, executions, varied>>

vars == <<agentVars, storeVars, pipeVars, turnVars>>

AgentInit ==
  /\ apc = "idle"
  /\ user_message = <<>>
  /\ system_prompt = <<>>
  /\ messages = <<>>
  /\ iteration = 0
  /\ response = NoResponse
  /\ block = 0
  /\ tool_results = <<>>
  /\ agent_result = <<>>
  /\ model_calls = <<>>
  /\ executions = <<>>
  /\ varied = 0

\* ----------------------------------------- context window (services/context.py)

UserIds == {1, 2}

\* Appends of a behaviour, and the entries user 1's window may hold at its start.
MaxAppends == 3
PreLoaded == 10

Roles == {"user", "assistant"}
Texts == { <<"hi">>, <<"ok">> }

Row(u, role, text, ts) == [user_id |-> u, role |-> role, text |-> text, timestamp |-> ts]
Entry(role, text, ts) == [role |-> role, text |-> text, timestamp |-> ts]

RowsOf(rows, u) == {r \in rows : r.user_id = u}

\* The rows in ascending and in descending order of timestamp.
RECURSIVE Ascending(_)
Ascending(rows) ==
  IF rows = {} THEN <<>>
  ELSE LET first == CHOOSE r \in rows : \A q \in rows : r.timestamp <= q.timestamp
       IN <<first>> \o Ascending(rows \ {first})

RECURSIVE Descending(_)
Descending(rows) ==
  IF rows = {} THEN <<>>
  ELSE LET first == CHOOSE r \in rows : \A q \in rows : r.timestamp >= q.timestamp
       IN <<first>> \o Descending(rows \ {first})

Selected(seq) == [i \in 1..Len(seq) |-> Entry(seq[i].role, seq[i].text, seq[i].timestamp)]

\* load_context(user_id): select role, text, timestamp where user_id = ...
\* order by timestamp ascending.
load_context_newest_first(rows, u) == Selected(Descending(RowsOf(rows, u)))
load_context(rows, u) == Selected(Ascending(RowsOf(rows, u)))

\* save_to_context(user_id, ..., role, text): one row, stamped with the time
\* of the call.
save_to_context(rows, u, role, text, now) == rows \cup {Row(u, role, text, now)}

\* The trim_minimal_context procedure of the datastore, called by
\* trim_context(user_id): of the user's rows it keeps the
\* CONTEXT_MESSAGE_LIMIT newest and deletes the others.
trim_minimal_context(rows, u) ==
  {r \in rows :
     \/ r.user_id # u
     \/ Cardinality({q \in RowsOf(rows, u) : q.timestamp > r.timestamp})
          < CONTEXT_MESSAGE_LIMIT}

\* A rendering with no placeholder for the empty window.
format_context_joining_only(entries) ==
  join(<<"\n">>, [i \in 1..Len(entries) |-> <<entries[i].role, ": ">> \o entries[i].text])

\* format_context_for_prompt(messages)
format_context_for_prompt(entries) ==
  IF entries = <<>> THEN <<"(No previous conversation)">>
  ELSE join(<<"\n">>, [i \in 1..Len(entries) |-> <<entries[i].role, ": ">> \o entries[i].text])

\* The entries earlier turns appended to a window that holds n entries.
EarlierEntries(n) ==
  [i \in 1..n |-> Entry(IF i % 2 = 1 THEN "user" ELSE "assistant",
                        IF i % 2 = 1 THEN <<"hi">> ELSE <<"ok">>, i)]

NoLoad == [user |-> 0, at |-> 0, dirty |-> FALSE]

\* The store after earlier turns appended n entries to user 1's window, the
\* last of them followed by a trim.
StoreInitWith(n) ==
  /\ minimal_context =
       {Row(1, EarlierEntries(n)[i].role, EarlierEntries(n)[i].text, i) :
          i \in {j \in 1..n : j > n - CONTEXT_MESSAGE_LIMIT}}
  /\ clock = n + 1
  /\ context_messages = <<>>
  /\ history = [u \in UserIds |-> IF u = 1 THEN EarlierEntries(n) ELSE <<>>]
  /\ dirty = [u \in UserIds |-> FALSE]
  /\ load_info = NoLoad

NoUpdate == [user_id |-> 0, text |-> <<>>]

\* The concurrent turns of a user, and the user.
Turns == {1, 2}
TurnUser == 1

TurnsInit ==
  /\ tpc = [t \in Turns |-> "idle"]
  /\ peak = 0

PipeInit ==
  /\ hpc = "idle"
  /\ update = NoUpdate
  /\ recent_conversation = <<>>
  /\ reply = <<>>
  /\ users = {}
  /\ chat_logs = <<>>
  /\ outbox = <<>>
  /\ turns = 0
  /\ handler_raised = FALSE
  /\ trace = <<>>

\* One turn of the agent loop against a model stub, from calendars that are
\* empty or hold a booking.
Init ==
  /\ AgentInit
  /\ calendar \in InitialCalendars
  /\ StoreInitWith(0)
  /\ PipeInit
  /\ TurnsInit

Next ==
  \/ \E um \in UserTexts, rc \in RecentConversations :
       AgentStart(um, rc) /\ UNCHANGED <<storeVars, pipeVars, turnVars>>
  \/ ModelAnswers /\ UNCHANGED <<storeVars, pipeVars, turnVars>>
  \/ ModelFails /\ UNCHANGED <<storeVars, pipeVars, turnVars>>
  \/ LoopExhausted /\ UNCHANGED <<storeVars, pipeVars, turnVars>>
  \/ SkipBlock /\ UNCHANGED <<storeVars, pipeVars, turnVars>>
  \/ ExecuteBlock /\ UNCHANGED <<storeVars, pipeVars, turnVars>>
  \/ FeedResults /\ UNCHANGED <<storeVars, pipeVars, turnVars>>

Spec == Init /\ [][Next]_vars

\* Appends, trims and loads of the context windows in any order, from a store
\* in which earlier turns left user 1 a window of PreLoaded entries.
\* A load is followed by format_context_for_prompt, as in handlers.py 88-89.
AppendEntry(u, role, text) ==
  /\ Len(history[1]) + Len(history[2]) < PreLoaded + MaxAppends
  /\ minimal_context' = save_to_context(minimal_context, u, role, text, clock)
  /\ clock' = clock + 1
  /\ history' = [history EXCEPT ![u] = Append(@, Entry(role, text, clock))]
  /\ dirty' = [dirty EXCEPT ![u] = TRUE]
  /\ UNCHANGED <<context_messages, load_info>>

TrimWindow(u) ==
  /\ minimal_context' = trim_minimal_context(minimal_context, u)
  /\ dirty' = [dirty EXCEPT ![u] = FALSE]
  /\ UNCHANGED <<clock, context_messages, history, load_info>>

LoadWindow(u) ==
  /\ context_messages' = load_context(minimal_context, u)
  /\ recent_conversation' = format_context_for_prompt(load_context(minimal_context, u))
  /\ load_info' = [user |-> u, at |-> Len(history[u]), dirty |-> dirty[u]]
  /\ UNCHANGED <<minimal_context, clock, history, dirty>>

InitContext ==
  /\ AgentInit
  /\ calendar = EmptyCalendars
  /\ StoreInitWith(PreLoaded)
  /\ PipeInit
  /\ TurnsInit

NextContext ==
  \/ \E u \in UserIds, role \in Roles, text \in Texts :
       AppendEntry(u, role, text) /\ UNCHANGED <<agentVars, pipeVars, turnVars>>
  \/ \E u \in UserIds : TrimWindow(u) /\ UNCHANGED <<agentVars, pipeVars, turnVars>>
  \/ \E u \in UserIds :
       LoadWindow(u) /\ UNCHANGED <<agentVars, hpc, update, reply, users, chat_logs, outbox,
                                    turns, handler_raised, trace, turnVars>>

SpecContext == InitContext /\ [][NextContext]_vars

\* -------------------------------------------- execute_tool called on its own

\* Argument mappings: each field absent or holding one of a few values.
Absent == "<absent>"

Choices ==
  [query : {Absent, "pet policy"},
   property_name : {Absent, "The Glasshouse", "Atlantis", "[]"},
   check_in_date : {Absent, "2025-12-04", "tomorrow"},
   check_out_date : {Absent, "2025-12-05"},
   guest_name : {Absent, "Ann"},
   guest_email : {Absent, "ann@example.com"},
   guest_phone : {Absent, "555-0100"}]

\* The mapping that a choice of value or absence per field stands for.
Mapping(choice) == [f \in {g \in DOMAIN choice : choice[g] # Absent} |-> choice[f]]

\* execute_tool(tool_name, tool_input) is called once.
DirectCall(tool_name, tool_input, env) ==
  /\ apc = "idle"
  /\ executions = <<>>
  /\ Executed([id |-> 0, name |-> tool_name, input |-> tool_input],
              execute_tool(tool_name, tool_input, env.kb, calendar, env.fault))
  /\ UNCHANGED <<user_message, system_prompt, messages, iteration, response,
                 agent_result, model_calls, varied>>

InitTool ==
  /\ AgentInit
  /\ calendar \in InitialCalendars
  /\ StoreInitWith(0)
  /\ PipeInit
  /\ TurnsInit

NextTool ==
  \E tool_name \in ToolNames \cup {"foo", ""}, choice \in Choices, env \in Envs :
    DirectCall(tool_name, Mapping(choice), env) /\ UNCHANGED <<storeVars, pipeVars, turnVars>>

SpecTool == InitTool /\ [][NextTool]_vars

\* ------------------------------------------- handle_message (bot/handlers.py)

\* Updates handled in one behaviour.
MaxTurns == 2

APOLOGY == <<"Sorry, something went wrong on my end. Please try again in a moment.">>

\* The text of an update: a message text, or none (<<>>: the update has no
\* message or the message has no text).
UpdateTexts == { <<"hi">>, <<>> }

\* What run_agent gives its caller: a final answer or the fallback string.
AgentReplies == {FinalText(<<TextBlock(<<"Hello">>), TextBlock(<<"there">>)>>), FALLBACK}

\* The steps of the try block, in order, and the step that follows each.
StepAfterSkippingTrim(step) ==
  CASE step = "ensure_user" -> "log_user"
    [] step = "log_user" -> "save_user"
    [] step = "save_user" -> "load"
    [] step = "trim_user" -> "load"
    [] step = "load" -> "agent"
    [] step = "agent" -> "log_reply"
    [] step = "log_reply" -> "save_reply"
    [] step = "save_reply" -> "send"
    [] step = "trim_reply" -> "send"
\* An order that reads the window first and writes both entries after the agent.
StepAfterSavingLate(step) ==
  CASE step = "ensure_user" -> "log_user"
    [] step = "log_user" -> "load"
    [] step = "load" -> "agent"
    [] step = "agent" -> "log_reply"
    [] step = "log_reply" -> "save_user"
    [] step = "save_user" -> "trim_user"
    [] step = "trim_user" -> "save_reply"
    [] step = "save_reply" -> "trim_reply"
    [] step = "trim_reply" -> "send"

\* An order that sends the reply without the trim that follows its append.
StepAfterSkippingLastTrim(step) ==
  CASE step = "ensure_user" -> "log_user"
    [] step = "log_user" -> "save_user"
    [] step = "save_user" -> "trim_user"
    [] step = "trim_user" -> "load"
    [] step = "load" -> "agent"
    [] step = "agent" -> "log_reply"
    [] step = "log_reply" -> "save_reply"
    [] step = "save_reply" -> "send"
    [] step = "trim_reply" -> "send"

StepAfter(step) ==
  CASE step = "ensure_user" -> "log_user"
    [] step = "log_user" -> "save_user"
    [] step = "save_user" -> "trim_user"
    [] step = "trim_user" -> "load"
    [] step = "load" -> "agent"
    [] step = "agent" -> "log_reply"
    [] step = "log_reply" -> "save_reply"
    [] step = "save_reply" -> "trim_reply"
    [] step = "trim_reply" -> "send"

LogRow(u, role, text) == [user_id |-> u, role |-> role, text |-> text]

\* The record of a step of turn t.
Step(t, step, ok) == [turn |-> t, step |-> step, ok |-> ok]
Did(ok) == trace' = Append(trace, Step(turns, hpc, ok))

\* A handler that takes up every update, with or without text.
ReceiveAnyUpdate(u, text) ==
  /\ hpc = "idle"
  /\ turns < MaxTurns
  /\ turns' = turns + 1
  /\ trace' = <<Step(turns + 1, "receive", TRUE)>>
  /\ hpc' = "ensure_user"
  /\ update' = [user_id |-> u, text |-> text]
  /\ UNCHANGED <<recent_conversation, reply, users, chat_logs, outbox, handler_raised>>
  /\ UNCHANGED storeVars

\* An update arrives: lines 41-54.  An update without text is dropped.
Receive(u, text) ==
  /\ hpc = "idle"
  /\ turns < MaxTurns
  /\ turns' = turns + 1
  /\ IF text = <<>> THEN
       /\ trace' = <<Step(turns + 1, "ignored", TRUE)>>
       /\ UNCHANGED <<hpc, update>>
     ELSE
       /\ trace' = <<Step(turns + 1, "receive", TRUE)>>
       /\ hpc' = "ensure_user"
       /\ update' = [user_id |-> u, text |-> text]
  /\ UNCHANGED <<recent_conversation, reply, users, chat_logs, outbox, handler_raised>>
  /\ UNCHANGED storeVars

\* A call of the try block raises: control passes to the except clause.  A
\* failed insert or trim may or may not have reached the datastore.
StepFails ==
  /\ hpc \in {"ensure_user", "log_user", "save_user", "trim_user", "load", "agent",
              "log_reply", "save_reply", "trim_reply", "send"}
  /\ hpc' = "except"
  /\ Did(FALSE)
  /\ UNCHANGED <<update, recent_conversation, reply, users, chat_logs, outbox, turns,
                 handler_raised>>
  /\ UNCHANGED storeVars

\* 2. ensure_user_exists: lines 58-64.
EnsureUser ==
  /\ hpc = "ensure_user"
  /\ Did(TRUE)
  /\ users' = users \cup {update.user_id}
  /\ hpc' = StepAfter(hpc)
  /\ UNCHANGED <<update, recent_conversation, reply, chat_logs, outbox, turns, handler_raised>>
  /\ UNCHANGED storeVars

\* A log that keeps one row per user, the newest.
LogMessageUpserting ==
  /\ hpc \in {"log_user", "log_reply"}
  /\ Did(TRUE)
  /\ chat_logs' = Append(SelectSeq(chat_logs, LAMBDA row : row.user_id # update.user_id),
                         IF hpc = "log_user" THEN LogRow(update.user_id, "user", update.text)
                         ELSE LogRow(update.user_id, "assistant", reply))
  /\ hpc' = StepAfter(hpc)
  /\ UNCHANGED <<update, recent_conversation, reply, users, outbox, turns, handler_raised>>
  /\ UNCHANGED storeVars

\* 3 and 7. log_message: lines 67-74 and 95-101.
LogMessage ==
  /\ hpc \in {"log_user", "log_reply"}
  /\ Did(TRUE)
  /\ chat_logs' = Append(chat_logs,
                         IF hpc = "log_user" THEN LogRow(update.user_id, "user", update.text)
                         ELSE LogRow(update.user_id, "assistant", reply))
  /\ hpc' = StepAfter(hpc)
  /\ UNCHANGED <<update, recent_conversation, reply, users, outbox, turns, handler_raised>>
  /\ UNCHANGED storeVars

\* log_message raises after the row was stored.
LogFailsLate ==
  /\ hpc \in {"log_user", "log_reply"}
  /\ Did(FALSE)
  /\ chat_logs' = Append(chat_logs,
                         IF hpc = "log_user" THEN LogRow(update.user_id, "user", update.text)
                         ELSE LogRow(update.user_id, "assistant", reply))
  /\ hpc' = "except"
  /\ UNCHANGED <<update, recent_conversation, reply, users, outbox, turns, handler_raised>>
  /\ UNCHANGED storeVars

\* An insert that stores the row twice.
InsertedTwice(role, text) ==
  /\ minimal_context' =
       save_to_context(save_to_context(minimal_context, update.user_id, role, text, clock),
                       update.user_id, role, text, clock + 1)
  /\ clock' = clock + 2
  /\ history' = [history EXCEPT ![update.user_id] =
                   Append(Append(@, Entry(role, text, clock)), Entry(role, text, clock + 1))]
  /\ dirty' = [dirty EXCEPT ![update.user_id] = TRUE]
  /\ UNCHANGED <<context_messages, load_info>>

\* The insert of step 4 or 8 reaches the datastore.
Inserted(role, text) ==
  /\ minimal_context' = save_to_context(minimal_context, update.user_id, role, text, clock)
  /\ clock' = clock + 1
  /\ history' = [history EXCEPT ![update.user_id] = Append(@, Entry(role, text, clock))]
  /\ dirty' = [dirty EXCEPT ![update.user_id] = TRUE]
  /\ UNCHANGED <<context_messages, load_info>>

\* 4 and 8. save_to_context: lines 77-84 and 104-110.
SaveToContext ==
  /\ hpc \in {"save_user", "save_reply"}
  /\ Did(TRUE)
  /\ IF hpc = "save_user" THEN Inserted("user", update.text) ELSE Inserted("assistant", reply)
  /\ hpc' = StepAfter(hpc)
  /\ UNCHANGED <<update, recent_conversation, reply, users, chat_logs, outbox, turns,
                 handler_raised>>

\* save_to_context raises after the row was stored.
SaveFailsLate ==
  /\ hpc \in {"save_user", "save_reply"}
  /\ Did(FALSE)
  /\ IF hpc = "save_user" THEN Inserted("user", update.text) ELSE Inserted("assistant", reply)
  /\ hpc' = "except"
  /\ UNCHANGED <<update, recent_conversation, reply, users, chat_logs, outbox, turns,
                 handler_raised>>

\* 4 and 8. trim_context: lines 85 and 111.
TrimContext ==
  /\ hpc \in {"trim_user", "trim_reply"}
  /\ Did(TRUE)
  /\ minimal_context' = trim_minimal_context(minimal_context, update.user_id)
  /\ dirty' = [dirty EXCEPT ![update.user_id] = FALSE]
  /\ hpc' = StepAfter(hpc)
  /\ UNCHANGED <<clock, context_messages, history, load_info>>
  /\ UNCHANGED <<update, recent_conversation, reply, users, chat_logs, outbox, turns,
                 handler_raised>>

\* 5. load_context and format_context_for_prompt: lines 88-89.
LoadContext ==
  /\ hpc = "load"
  /\ Did(TRUE)
  /\ context_messages' = load_context(minimal_context, update.user_id)
  /\ load_info' = [user |-> update.user_id, at |-> Len(history[update.user_id]),
                   dirty |-> dirty[update.user_id]]
  /\ recent_conversation' =
       format_context_for_prompt(load_context(minimal_context, update.user_id))
  /\ hpc' = StepAfter(hpc)
  /\ UNCHANGED <<minimal_context, clock, history, dirty>>
  /\ UNCHANGED <<update, reply, users, chat_logs, outbox, turns, handler_raised>>

\* 6. run_agent returns: line 92.
RunAgent(r) ==
  /\ hpc = "agent"
  /\ Did(TRUE)
  /\ reply' = r
  /\ hpc' = StepAfter(hpc)
  /\ UNCHANGED <<update, recent_conversation, users, chat_logs, outbox, turns, handler_raised>>
  /\ UNCHANGED storeVars

\* handle_message is left: its locals are gone.
Leave ==
  /\ hpc' = "idle"
  /\ update' = NoUpdate
  /\ recent_conversation' = <<>>
  /\ reply' = <<>>
  /\ context_messages' = <<>>
  /\ load_info' = NoLoad
  /\ UNCHANGED <<minimal_context, clock, history, dirty>>

\* 9. message.reply_text(reply): line 114.
SendReply ==
  /\ hpc = "send"
  /\ Did(TRUE)
  /\ outbox' = Append(outbox, [chat |-> update.user_id, text |-> reply])
  /\ Leave
  /\ UNCHANGED <<users, chat_logs, turns, handler_raised>>

\* The except clause sends the apology: lines 116-120.
SendApology ==
  /\ hpc = "except"
  /\ trace' = Append(trace, Step(turns, "apology", TRUE))
  /\ outbox' = Append(outbox, [chat |-> update.user_id, text |-> APOLOGY])
  /\ Leave
  /\ UNCHANGED <<users, chat_logs, turns, handler_raised>>

\* Sending the apology raises: the exception leaves handle_message.
ApologyFails ==
  /\ hpc = "except"
  /\ trace' = Append(trace, Step(turns, "apology", FALSE))
  /\ handler_raised' = TRUE
  /\ Leave
  /\ UNCHANGED <<users, chat_logs, outbox, turns>>

InitPipeline ==
  /\ AgentInit
  /\ calendar = EmptyCalendars
  /\ StoreInitWith(PreLoaded)
  /\ PipeInit
  /\ TurnsInit

\* Updates are handled one at a time, each to its end.
NextPipeline ==
  \/ \E u \in UserIds, text \in UpdateTexts : Receive(u, text) /\ UNCHANGED <<agentVars, turnVars>>
  \/ StepFails /\ UNCHANGED <<agentVars, turnVars>>
  \/ EnsureUser /\ UNCHANGED <<agentVars, turnVars>>
  \/ LogMessage /\ UNCHANGED <<agentVars, turnVars>>
  \/ LogFailsLate /\ UNCHANGED <<agentVars, turnVars>>
  \/ SaveToContext /\ UNCHANGED <<agentVars, turnVars>>
  \/ SaveFailsLate /\ UNCHANGED <<agentVars, turnVars>>
  \/ TrimContext /\ UNCHANGED <<agentVars, turnVars>>
  \/ LoadContext /\ UNCHANGED <<agentVars, turnVars>>
  \/ \E r \in AgentReplies : RunAgent(r) /\ UNCHANGED <<agentVars, turnVars>>
  \/ SendReply /\ UNCHANGED <<agentVars, turnVars>>
  \/ SendApology /\ UNCHANGED <<agentVars, turnVars>>
  \/ ApologyFails /\ UNCHANGED <<agentVars, turnVars>>

SpecPipeline == InitPipeline /\ [][NextPipeline]_vars

\* ================================================================= claims

\* Helpers over what the turn recorded.
AssistantIndexes == {i \in 1..Len(messages) : messages[i].role = "assistant"}
ToolUseRounds == Cardinality(AssistantIndexes)
ToolUseBlocks(content) == SelectSeq(content, LAMBDA b : b.type = "tool_use")
ExecutionsOf(it) == SelectSeq(executions, LAMBDA e : e.iteration = it)
IdsOf(seq) == [i \in 1..Len(seq) |-> seq[i].id]
ResultIdsOf(seq) == [i \in 1..Len(seq) |-> seq[i].tool_use_id]

\* C1: run_agent never makes more than max_iterations (10) model calls in one
\* turn, and when every call was answered with a tool-use signal it returns
\* the fallback string after exactly 10 model calls.
C1_IterationBudget ==
  /\ Len(model_calls) <= 10
  /\ (apc = "loop" /\ ToolUseRounds = 10) => (ENABLED LoopExhausted /\ ~ENABLED ModelAnswers)
  /\ (apc = "returned" /\ ToolUseRounds = Len(model_calls)) =>
       (agent_result = FALLBACK /\ Len(model_calls) = 10)

C1_Witness ==
  /\ apc = "returned"
  /\ ToolUseRounds = 10
  /\ Len(model_calls) = 10
  /\ agent_result = FALLBACK

\* C2: when a response carries the final-answer signal, run_agent returns at
\* once the text segments of that response joined by single spaces, in
\* response order, stripped of surrounding whitespace, skipping blocks
\* without text; no model call and no tool execution follows.
ExpectedAnswer(content) ==
  CASE content = <<TextBlock(<<"Hello">>), TextBlock(<<"there">>)>> -> <<"Hello", " ", "there">>
    [] content = <<TextBlock(<<" ", "Hi", "\n">>)>> -> <<"Hi">>
    [] content = <<ThinkingBlock, TextBlock(<<"Done">>)>> -> <<"Done">>
    [] content = <<TextBlock(<<"All">>), ToolUseBlock(0, DefaultCall), TextBlock(<<"set", " ">>)>>
         -> <<"All", " ", "set">>
    [] content = <<>> -> <<>>

C2_FinalAnswerState ==
  response.stop_reason = "end_turn" =>
    /\ apc = "returned"
    /\ agent_result = ExpectedAnswer(response.content)
    /\ Len(model_calls) = iteration
    /\ ExecutionsOf(iteration) = <<>>
    /\ Len(messages) = 2 * (iteration - 1) + 1

C2_FinalAnswer ==
  /\ []C2_FinalAnswerState
  /\ [][response.stop_reason = "end_turn" => UNCHANGED vars]_vars

C2_Witness ==
  /\ apc = "returned"
  /\ iteration = 3
  /\ response.content = <<TextBlock(<<"Hello">>), TextBlock(<<"there">>)>>
  /\ agent_result = <<"Hello", " ", "there">>

\* C3: the tool-result message appended after a tool-use response holds exactly
\* one ToolResult per ToolCall of that response, each with the id of the call
\* whose execution produced its content.
ResultsMatchCalls(calls, results, it) ==
  /\ Len(results) = Len(calls)
  /\ \A k \in 1..Len(calls) :
       /\ results[k].tool_use_id = calls[k].id
       /\ \E j \in 1..Len(executions) :
            /\ executions[j].id = calls[k].id
            /\ executions[j].iteration = it
            /\ executions[j].name = calls[k].name
            /\ executions[j].out = results[k].content

C3_ResultIdsMatch ==
  \A i \in AssistantIndexes :
    i + 1 <= Len(messages) =>
      /\ messages[i + 1].role = "user"
      /\ ResultsMatchCalls(ToolUseBlocks(messages[i].content), messages[i + 1].content, i \div 2)

C3_Witness ==
  \E i \in AssistantIndexes :
    /\ i + 1 <= Len(messages)
    /\ Len(messages[i + 1].content) = 2
    /\ messages[i + 1].content[1].tool_use_id # messages[i + 1].content[2].tool_use_id
    /\ messages[i + 1].content[1].content # messages[i + 1].content[2].content

\* The string execute_tool gives for a failed lookup of a field, or for a
\* backing call that raised: starts {"error": "Tool failed: .
IsToolFailed(out) ==
  /\ Len(out) >= 7
  /\ SubSeq(out, 1, 7) = <<"{", "\"", "error", "\"", ": ", "\"", "Tool failed: ">>

UnknownToolJson(name) ==
  <<"{", "\"", "error", "\"", ": ", "\"", "Unknown tool: ", name, "\"", "}">>

\* The result of execution e is where run_agent collects it: in tool_results
\* while the for loop of its iteration runs, and afterwards in the tool-result
\* message of that iteration.
ResultRecorded(e) ==
  LET results == IF e.iteration = iteration /\ apc = "tools"
                 THEN tool_results
                 ELSE messages[2 * e.iteration + 1].content
  IN \E k \in 1..Len(results) :
       results[k] = [type |-> "tool_result", tool_use_id |-> e.id, content |-> e.out]

\* The model call after the iteration of execution e was made with the
\* tool-result message of that iteration in the message list.
LoopWentOn(e) ==
  e.iteration < Len(model_calls) => model_calls[e.iteration + 1].sent = 2 * e.iteration + 1

\* C4: no tool failure aborts a turn: whether an argument is missing, the
\* backing call raises or the tool name is unknown, execute_tool returns a
\* string, run_agent appends it as a ToolResult and goes on to the next model
\* call; the turn is left by an exception only when a model call fails.
C4_ToolFailureNeverAborts ==
  /\ \A i \in 1..Len(executions) :
       /\ ~executions[i].raised
       /\ ResultRecorded(executions[i])
       /\ LoopWentOn(executions[i])
  /\ apc = "raised" => (model_calls # <<>> /\ ~model_calls[Len(model_calls)].ok)
  /\ (apc = "tools" /\ block > Len(response.content)) => ENABLED FeedResults
  /\ (apc = "loop" /\ iteration < 10) => ENABLED ModelAnswers

\* A missing argument and an unknown tool have each been followed by the next
\* model call.
C4_Witness ==
  /\ \E i \in 1..Len(executions) :
       /\ IsToolFailed(executions[i].out)
       /\ executions[i].invoked = <<>>
       /\ executions[i].iteration < Len(model_calls)
  /\ \E i \in 1..Len(executions) :
       /\ executions[i].name \notin ToolNames
       /\ executions[i].iteration < Len(model_calls)
  /\ model_calls[Len(model_calls)].ok

\* C5: for a tool name that is not one of the four registered tools,
\* execute_tool calls no backing capability and returns the JSON string of
\* {"error": "Unknown tool: <name>"}, and the loop continues with the next
\* model call.
C5_UnknownTool ==
  \A i \in 1..Len(executions) :
    executions[i].name \notin {"search_knowledge_base", "check_availability",
                               "create_booking", "cancel_booking"} =>
      /\ ~executions[i].raised
      /\ executions[i].invoked = <<>>
      /\ executions[i].api = <<>>
      /\ executions[i].out = UnknownToolJson(executions[i].name)
      /\ ResultRecorded(executions[i])
      /\ LoopWentOn(executions[i])
      /\ apc # "raised" \/ Len(model_calls) > executions[i].iteration

C5_Witness ==
  \E i \in 1..Len(executions) :
    /\ executions[i].name = "foo"
    /\ executions[i].out = <<"{", "\"", "error", "\"", ": ", "\"", "Unknown tool: ", "foo", "\"", "}">>
    /\ executions[i].iteration < Len(model_calls)
    /\ model_calls[executions[i].iteration + 1].ok

\* C7: the tool calls of one response are executed one at a time in the order
\* in which they appear in the response, and the ToolResults are collected in
\* that same order.
C7_SequentialInOrder ==
  /\ \A i \in AssistantIndexes :
       LET it == i \div 2
           calls == ToolUseBlocks(messages[i].content)
           done == ExecutionsOf(it)
           results == IF i + 1 <= Len(messages) THEN messages[i + 1].content ELSE tool_results
       IN /\ Len(done) <= Len(calls)
          /\ IdsOf(done) = SubSeq(IdsOf(calls), 1, Len(done))
          /\ ResultIdsOf(results) = IdsOf(done)
          /\ i + 1 <= Len(messages) => Len(done) = Len(calls)
  /\ \A j \in 1..Len(executions) - 1 :
       \/ executions[j].iteration < executions[j + 1].iteration
       \/ /\ executions[j].iteration = executions[j + 1].iteration
          /\ executions[j].block < executions[j + 1].block

C7_Witness ==
  /\ apc = "tools"
  /\ Len(ToolUseBlocks(response.content)) = 2
  /\ Len(tool_results) = 2
  /\ tool_results[1].tool_use_id = ToolUseBlocks(response.content)[1].id
  /\ tool_results[2].tool_use_id = ToolUseBlocks(response.content)[2].id

\* C10: a failure of the model call is not caught by run_agent: the turn is
\* left by the exception, nothing is returned (no fallback string), and no
\* model call or tool execution follows.
C10_ModelFailureState ==
  \A i \in 1..Len(model_calls) :
    ~model_calls[i].ok =>
      /\ apc = "raised"
      /\ agent_result # FALLBACK
      /\ i = Len(model_calls)
      /\ ExecutionsOf(i) = <<>>

C10_ModelFailurePropagates ==
  /\ []C10_ModelFailureState
  /\ [][apc = "raised" => UNCHANGED vars]_vars

C10_Witness ==
  /\ apc = "raised"
  /\ Len(model_calls) = 4
  /\ ~model_calls[4].ok
  /\ Len(executions) >= 3

\* The last n entries of a sequence.
LastN(seq, n) == SubSeq(seq, Len(seq) - n + 1, Len(seq))
Min(a, b) == IF a <= b THEN a ELSE b

\* C8: for every user, after appends and trims ending with a trim, load_context
\* returns at most N (10) entries, oldest first, and they are exactly the most
\* recent entries of that user's append history: a contiguous suffix, with no
\* re-ordering and no gaps.
C8_LoadIsRecentSuffix ==
  (load_info.user # 0 /\ ~load_info.dirty) =>
    LET appended == SubSeq(history[load_info.user], 1, load_info.at)
    IN /\ Len(context_messages) <= 10
       /\ Len(context_messages) = Min(10, Len(appended))
       /\ context_messages = LastN(appended, Len(context_messages))
       /\ \A i \in 1..Len(context_messages) - 1 :
            context_messages[i].timestamp < context_messages[i + 1].timestamp

\* A load after a trim that dropped the two oldest of twelve entries.
C8_Witness ==
  /\ load_info.user = 1
  /\ ~load_info.dirty
  /\ load_info.at = 12
  /\ Len(context_messages) = 10
  /\ context_messages[1] = history[1][3]
  /\ Len(history[2]) = 0

\* C6: for every declared tool and every field its schema lists as required,
\* execute_tool called with that field absent returns a {"error": "Tool
\* failed: ..."} payload and does not invoke the backing capability.
RequiredOf(name) == {TOOL_SCHEMAS[name][i] : i \in 1..Len(TOOL_SCHEMAS[name])}

C6_MissingRequiredFails ==
  \A i \in 1..Len(executions) :
    (/\ executions[i].name \in ToolNames
     /\ \E f \in RequiredOf(executions[i].name) : f \notin DOMAIN executions[i].input) =>
      /\ IsToolFailed(executions[i].out)
      /\ executions[i].invoked = <<>>

\* C9: in the message pipeline every append to the context window is followed
\* at once by a trim of the same user's window, before any load, so the
\* context loaded for the agent (step 5) never holds more than N entries.
C9_LoadedWithinLimit ==
  /\ load_info.user # 0 => (~load_info.dirty /\ Len(context_messages) <= 10)
  /\ hpc = "load" => ~dirty[update.user_id]
  /\ \A u \in UserIds :
       ~dirty[u] => Cardinality(RowsOf(minimal_context, u)) <= 10

\* A step that appends to a window leads to the trim of that window (or, when
\* the insert raised, to the except clause), and the step at a trim is that
\* trim (or its failure).
C9_AppendLeadsToTrim ==
  (minimal_context' # minimal_context /\ dirty'[update.user_id])
    => hpc' \in {"trim_user", "trim_reply", "except"}

C9_TrimIsNext ==
  hpc \in {"trim_user", "trim_reply"} =>
    (hpc' = "except"
     \/ minimal_context' = trim_minimal_context(minimal_context, update.user_id))

C9_TrimFollowsAppend ==
  /\ []C9_LoadedWithinLimit
  /\ [][C9_AppendLeadsToTrim]_vars
  /\ [][C9_TrimIsNext]_vars

\* The agent is about to run on a window of ten entries loaded after the
\* trim dropped the oldest of eleven.
C9_Witness ==
  /\ hpc = "agent"
  /\ load_info.user = 1
  /\ load_info.at > 10
  /\ Len(context_messages) = 10
  /\ context_messages[10].text = update.text

\* A step of the try block of the latest turn raised.
TryRaised == \E i \in 1..Len(trace) : ~trace[i].ok /\ trace[i].step # "apology"

\* C11: when a step of handle_message raises, the handler itself does not
\* raise, and the user is sent the one fixed apology string and nothing else
\* about the error: the turn ends with the apology as the last message sent.
C11_PipelineFailureApology ==
  /\ ~handler_raised
  /\ (hpc = "idle" /\ TryRaised) =>
       /\ trace[Len(trace)] = Step(turns, "apology", TRUE)
       /\ outbox # <<>>
       /\ outbox[Len(outbox)].text =
            <<"Sorry, something went wrong on my end. Please try again in a moment.">>

\* C12: when a response carries a stop signal that is neither the final answer
\* nor a tool use, run_agent leaves the loop at once: it executes no tool (not
\* even one the response holds), makes no further model call, appends nothing
\* to the message list and returns the fixed fallback string.
C12_UnexpectedStopState ==
  response.stop_reason \notin {"", "end_turn", "tool_use"} =>
    /\ apc = "returned"
    /\ agent_result = <<"I'm sorry, I had trouble processing that. Please try again.">>
    /\ Len(model_calls) = iteration
    /\ ExecutionsOf(iteration) = <<>>
    /\ Len(messages) = 2 * (iteration - 1) + 1
    /\ messages[Len(messages)].role = "user"

C12_UnexpectedStop ==
  /\ []C12_UnexpectedStopState
  /\ [][response.stop_reason \notin {"", "end_turn", "tool_use"} => UNCHANGED vars]_vars

\* The third response has stop reason stop_sequence and holds a tool call.
C12_Witness ==
  /\ apc = "returned"
  /\ iteration = 3
  /\ response.stop_reason = "stop_sequence"
  /\ ToolUseBlocks(response.content) # <<>>
  /\ Len(executions) = 2
  /\ Len(messages) = 5

\* C13: check_availability called with a property name that is not one of the
\* six enumerated properties returns available = false with a message that
\* names the unknown property, and makes no calendar call (whatever the state
\* of the calendar service).
C13_UnknownPropertyUnavailable ==
  \A i \in 1..Len(executions) :
    (/\ executions[i].name = "check_availability"
     /\ {"property_name", "check_in_date", "check_out_date"} \subseteq DOMAIN executions[i].input
     /\ executions[i].input.property_name \notin
          {"The Glasshouse", "The River Cottage", "The Olive Lodge", "The Barn Loft",
           "The Potter's Cabin", "The Stargazer's Pod", "[]"}) =>
      /\ executions[i].out =
           <<"{", "\"", "available", "\"", ": ", "false", ", ",
             "\"", "message", "\"", ": ", "\"",
             "Unknown property: ", executions[i].input.property_name,
             ". Please choose from the available properties.", "\"", "}">>
      /\ executions[i].api = <<>>
      /\ executions[i].invoked = <<"check_availability">>
      /\ ~executions[i].raised

C13_Witness ==
  \E i \in 1..Len(executions) :
    /\ executions[i].name = "check_availability"
    /\ DOMAIN executions[i].input = {"property_name", "check_in_date", "check_out_date"}
    /\ executions[i].input.property_name = "Atlantis"
    /\ executions[i].api = <<>>
    /\ executions[i].out[6] = "false"

\* ------------------------------ the calendar functions called on their own

\* Calls of one behaviour.
MaxCalls == 3

\* The bookings, cancellations and availability checks a caller asks for.
BookingRequests ==
  { [property_name |-> "The Glasshouse", check_in_date |-> "2025-12-04",
     check_out_date |-> "2025-12-06", guest_name |-> "Ann",
     guest_email |-> "ann@example.com", guest_phone |-> ""],
    [property_name |-> "The Glasshouse", check_in_date |-> "2025-12-04",
     check_out_date |-> "2025-12-05", guest_name |-> "Bob",
     guest_email |-> "", guest_phone |-> "555-0100"],
    [property_name |-> "The Barn Loft", check_in_date |-> "2025-12-04",
     check_out_date |-> "2025-12-05", guest_name |-> "Ann",
     guest_email |-> "", guest_phone |-> ""],
    [property_name |-> "Atlantis", check_in_date |-> "2025-12-04",
     check_out_date |-> "2025-12-05", guest_name |-> "Ann",
     guest_email |-> "", guest_phone |-> ""] }

CancelRequests ==
  { [property_name |-> "The Glasshouse", guest_name |-> "Ann", check_in_date |-> "2025-12-04"],
    [property_name |-> "The Glasshouse", guest_name |-> "Bob", check_in_date |-> "2025-12-04"],
    [property_name |-> "Atlantis", guest_name |-> "Ann", check_in_date |-> "2025-12-04"] }

AvailabilityRequests ==
  { [property_name |-> "The Glasshouse", check_in_date |-> "2025-12-04",
     check_out_date |-> "2025-12-06"],
    [property_name |-> "The Barn Loft", check_in_date |-> "2025-12-04",
     check_out_date |-> "2025-12-05"],
    [property_name |-> "Atlantis", check_in_date |-> "2025-12-04",
     check_out_date |-> "2025-12-05"] }

\* A calendar function was called with the arguments input while the service
\* had the given fault, and x is what it did.
Called(name, input, fault, x) ==
  /\ apc = "idle"
  /\ Len(executions) < MaxCalls
  /\ fault # 0 => varied < MaxVaried
  /\ varied' = IF fault = 0 THEN varied ELSE varied + 1
  /\ calendar' = x.cal
  /\ executions' = Append(executions,
                          [name |-> name, input |-> input, fault |-> fault,
                           raised |-> x.raised, ret |-> x.ret, api |-> x.api,
                           before |-> calendar, after |-> x.cal])
  /\ UNCHANGED <<apc, user_message, system_prompt, messages, iteration, response, block,
                 tool_results, agent_result, model_calls>>

CreateBooking(b, fault) ==
  Called("create_booking", b, fault,
         create_booking(b.property_name, b.check_in_date, b.check_out_date, b.guest_name,
                        b.guest_email, b.guest_phone, calendar, fault))

CancelBooking(c, fault) ==
  Called("cancel_booking", c, fault,
         cancel_booking(c.property_name, c.guest_name, c.check_in_date, calendar, fault))

CheckAvailability(q, fault) ==
  Called("check_availability", q, fault,
         check_availability(q.property_name, q.check_in_date, q.check_out_date, calendar, fault))

InitCalendar ==
  /\ AgentInit
  /\ calendar \in InitialCalendars
  /\ StoreInitWith(0)
  /\ PipeInit
  /\ TurnsInit

NextCalendar ==
  \/ \E b \in BookingRequests, fault \in 0..1 :
       CreateBooking(b, fault) /\ UNCHANGED <<storeVars, pipeVars, turnVars>>
  \/ \E c \in CancelRequests, fault \in 0..2 :
       CancelBooking(c, fault) /\ UNCHANGED <<storeVars, pipeVars, turnVars>>
  \/ \E q \in AvailabilityRequests, fault \in 0..1 :
       CheckAvailability(q, fault) /\ UNCHANGED <<storeVars, pipeVars, turnVars>>

SpecCalendar == InitCalendar /\ [][NextCalendar]_vars

\* The dict a calendar function returned holds key with the boolean b.
Reports(ret, key, b) ==
  \E i \in 1..Len(ret) :
    /\ ret[i].k = key
    /\ ret[i].v = IF b THEN <<"true">> ELSE <<"false">>

IdsIn(events) == {events[i].id : i \in 1..Len(events)}

\* Call i is a create_booking that succeeded and call i + 1 a cancel_booking
\* with the same property, guest name and check-in date.
CreateThenCancel(i) ==
  /\ i + 1 <= Len(executions)
  /\ executions[i].name = "create_booking"
  /\ Reports(executions[i].ret, "success", TRUE)
  /\ executions[i + 1].name = "cancel_booking"
  /\ executions[i + 1].input.property_name = executions[i].input.property_name
  /\ executions[i + 1].input.guest_name = executions[i].input.guest_name
  /\ executions[i + 1].input.check_in_date = executions[i].input.check_in_date

\* The calendar of the property that call i names.
CalendarOf(i) == CALENDAR_MAP[executions[i].input.property_name]

\* The event that the create_booking of call i inserted.
BookedBy(i) == IdsIn(executions[i].after[CalendarOf(i)]) \ IdsIn(executions[i].before[CalendarOf(i)])

\* After the cancel of call i + 1 the event booked by call i is gone, and a
\* check_availability that follows for the same property and range, the
\* calendar answering, reports available when no event is left in its range.
BookingGone(i) ==
  /\ BookedBy(i) \cap IdsIn(executions[i + 1].after[CalendarOf(i)]) = {}
  /\ (/\ i + 2 <= Len(executions)
      /\ executions[i + 2].name = "check_availability"
      /\ executions[i + 2].fault = 0
      /\ executions[i + 2].input.property_name = executions[i].input.property_name
      /\ executions[i + 2].input.check_in_date = executions[i].input.check_in_date
      /\ executions[i + 2].input.check_out_date = executions[i].input.check_out_date
      /\ \A k \in 1..Len(executions[i + 1].after[CalendarOf(i)]) :
           \/ DayOf(executions[i + 1].after[CalendarOf(i)][k].end)
                <= DayOf(executions[i].input.check_in_date)
           \/ DayOf(executions[i + 1].after[CalendarOf(i)][k].start)
                > DayOf(executions[i].input.check_out_date)) =>
       Reports(executions[i + 2].ret, "available", TRUE)

\* The calendar requests of the cancel of call i + 1 were answered.
CancelAnswered(i) == executions[i + 1].fault = 0

\* Before the cancel of call i + 1, the property's calendar holds no other
\* event that covers the check-in day and carries the guest name.
NoOtherMatch(i) ==
  \A k \in 1..Len(executions[i + 1].before[CalendarOf(i)]) :
    LET ev == executions[i + 1].before[CalendarOf(i)][k] IN
      \/ ev.id \in BookedBy(i)
      \/ DayOf(ev.start) > DayOf(executions[i].input.check_in_date)
      \/ DayOf(ev.end) <= DayOf(executions[i].input.check_in_date)
      \/ executions[i].input.guest_name \notin {ev.guest, ev.email, ev.phone}

\* C14 as stated: a successful create_booking followed immediately by
\* cancel_booking with the same property, guest name and check-in date removes
\* that booking's event, so that a following check_availability for the same
\* property and range no longer finds it.
C14_CancelRemovesBooking ==
  \A i \in 1..Len(executions) : CreateThenCancel(i) => BookingGone(i)

\* C14, amended: the same, when the calendar answers the cancel's requests and
\* no other event of that calendar covering the check-in day carries the guest
\* name (cancel_booking deletes the first event that matches).
C14_CancelRemovesOnlyMatch ==
  \A i \in 1..Len(executions) :
    (CreateThenCancel(i) /\ CancelAnswered(i) /\ NoOtherMatch(i)) => BookingGone(i)

C14_Witness ==
  /\ Len(executions) = 3
  /\ CreateThenCancel(1) /\ CancelAnswered(1) /\ NoOtherMatch(1)
  /\ executions[1].input.guest_name = "Ann"
  /\ executions[1].input.property_name = "The Glasshouse"
  /\ executions[1].before = EmptyCalendars
  /\ executions[1].after # EmptyCalendars
  /\ executions[2].after = EmptyCalendars
  /\ executions[3].name = "check_availability"
  /\ executions[3].input.property_name = "The Glasshouse"
  /\ Reports(executions[3].ret, "available", TRUE)

\* One line "<role>: <text>" per entry, in input order, with a newline between
\* a line and the next.
RECURSIVE Lines(_)
Lines(entries) ==
  IF Len(entries) = 1 THEN <<entries[1].role, ": ">> \o entries[1].text
  ELSE <<entries[1].role, ": ">> \o entries[1].text \o <<"\n">> \o Lines(Tail(entries))

\* C15: format_context_for_prompt returns the fixed placeholder string for an
\* empty sequence, and for a non-empty sequence exactly one line
\* "<role>: <text>" per entry, in input order, joined by newlines.
C15_FormatContext ==
  load_info # NoLoad =>
    /\ context_messages = <<>> => recent_conversation = <<"(No previous conversation)">>
    /\ context_messages # <<>> =>
         /\ recent_conversation = Lines(context_messages)
         /\ Len(SelectSeq(recent_conversation, LAMBDA t : t = "\n")) = Len(context_messages) - 1

C15_Witness ==
  /\ load_info.user = 2
  /\ Len(context_messages) = 2
  /\ context_messages[1].role = "assistant"
  /\ context_messages[2].role = "user"
  /\ recent_conversation = <<"assistant", ": ", "ok", "\n", "user", ": ", "hi">>

\* A turn that began with an update without text has no step after the first:
\* neither the agent nor any tool is called, and no step of the pipeline runs
\* for an update without text.
C16_IgnoredState ==
  /\ (trace # <<>> /\ trace[1].step = "ignored") => (Len(trace) = 1 /\ hpc = "idle")
  /\ hpc # "idle" => update.text # <<>>

\* Taking up an update without text changes nothing but the count of updates.
C16_IgnoredStep ==
  (turns' = turns + 1 /\ update'.text = <<>>) =>
    /\ trace' = <<Step(turns', "ignored", TRUE)>>
    /\ hpc' = "idle"
    /\ UNCHANGED <<users, chat_logs, minimal_context, outbox, handler_raised>>
    /\ UNCHANGED <<agentVars, storeVars>>

\* C16: an inbound update with no message or no text is ignored:
\* handle_message sends no reply, calls neither the agent nor any tool, and
\* leaves the users table, the permanent log and every context window unchanged.
C16_IgnoredUpdate == []C16_IgnoredState /\ [][C16_IgnoredStep]_vars

C16_Witness ==
  /\ trace = <<Step(2, "ignored", TRUE)>>
  /\ users # {}
  /\ chat_logs # <<>>
  /\ minimal_context # {}
  /\ Len(outbox) = 1

\* The row that the log_message call of the step the handler is at inserts.
RowOfStep ==
  IF hpc = "log_user" THEN [user_id |-> update.user_id, role |-> "user", text |-> update.text]
  ELSE [user_id |-> update.user_id, role |-> "assistant", text |-> reply]

\* The log changes only by a log_message call appending its row: no other
\* step, and no trim of a context window, removes or changes a log entry.
LogAppendOnly ==
  \/ chat_logs' = chat_logs
  \/ /\ hpc \in {"log_user", "log_reply"}
     /\ chat_logs' = Append(chat_logs, RowOfStep)

\* A turn that leaves a logging step has added that step's entry to the log.
LoggedWhenReached ==
  (hpc \in {"log_user", "log_reply"} /\ hpc' # hpc) => chat_logs' = Append(chat_logs, RowOfStep)

\* A log_message call that returned has added its entry to the log.
LoggedWhenReturned ==
  (hpc \in {"log_user", "log_reply"} /\ hpc' = StepAfter(hpc)) =>
    chat_logs' = Append(chat_logs, RowOfStep)

\* Within a turn the user entry precedes the assistant entry.
LogInOrder ==
  hpc \in {"save_reply", "trim_reply", "send"} =>
    /\ Len(chat_logs) >= 2
    /\ chat_logs[Len(chat_logs) - 1] =
         [user_id |-> update.user_id, role |-> "user", text |-> update.text]
    /\ chat_logs[Len(chat_logs)] =
         [user_id |-> update.user_id, role |-> "assistant", text |-> reply]

\* C17 as stated: the permanent log is append-only and never trimmed, and it
\* holds, in processing order, one user entry for every text message whose
\* turn reached the logging step and one assistant entry for every reply
\* produced.
C17_LogHoldsEveryTurn == []LogInOrder /\ [][LogAppendOnly /\ LoggedWhenReached]_vars

\* C17, amended: the same, with one user entry for every text message and one
\* assistant entry for every reply whose log_message call returned, and no
\* entry other than the rows log_message calls inserted.
C17_LogAppendOnly == []LogInOrder /\ [][LogAppendOnly /\ LoggedWhenReturned]_vars

C17_Witness ==
  /\ hpc = "idle"
  /\ turns = 2
  /\ Len(chat_logs) = 4
  /\ chat_logs[1].role = "user" /\ chat_logs[2].role = "assistant"
  /\ chat_logs[3].role = "user" /\ chat_logs[4].role = "assistant"
  /\ chat_logs[1].user_id = 1 /\ chat_logs[3].user_id = 1
  /\ Len(outbox) = 2

\* The latest turn has carried out the step.
Passed(step) == \E i \in 1..Len(trace) : trace[i].step = step /\ trace[i].ok

\* The latest turn has got as far as calling run_agent.
AgentCalled == \E i \in 1..Len(trace) : trace[i].step = "agent"

\* C18 as stated: within one turn the context window is read before the agent
\* loop starts and written only after the agent loop has ended: no append to
\* the user's context window happens before run_agent is called.
C18_NoAppendBeforeAgent == [][history' # history => AgentCalled]_vars

\* An append is the user's message, before the window is read and the agent
\* called, or the agent's reply, after run_agent has returned.
AppendsAroundAgent ==
  history' # history =>
    \/ /\ hpc = "save_user"
       /\ ~Passed("load") /\ ~AgentCalled
       /\ history' = [history EXCEPT ![update.user_id] =
                        Append(@, [role |-> "user", text |-> update.text, timestamp |-> clock])]
    \/ /\ hpc = "save_reply"
       /\ Passed("agent")
       /\ history' = [history EXCEPT ![update.user_id] =
                        Append(@, [role |-> "assistant", text |-> reply, timestamp |-> clock])]

\* When run_agent is called the window has been read, after the user's message
\* was appended and the window trimmed, and nothing was appended since.
ReadBeforeAgent ==
  hpc = "agent" =>
    /\ Passed("save_user") /\ Passed("trim_user") /\ Passed("load")
    /\ load_info = [user |-> update.user_id, at |-> Len(history[update.user_id]), dirty |-> FALSE]
    /\ context_messages # <<>>
    /\ context_messages[Len(context_messages)].role = "user"
    /\ context_messages[Len(context_messages)].text = update.text

\* C18, amended: within one turn the user's message is appended to the context
\* window and the window trimmed, then the window is read, all before the
\* agent loop starts; the window is written again, with the reply, only after
\* the agent loop has ended.
C18_AppendsAroundAgent == []ReadBeforeAgent /\ [][AppendsAroundAgent]_vars

C18_Witness ==
  /\ hpc = "trim_reply"
  /\ turns = 2
  /\ Len(history[update.user_id]) = 4
  /\ history[update.user_id][3].role = "user"
  /\ history[update.user_id][4].role = "assistant"
  /\ load_info.at = 3

\* The steps at which a turn waits on an external call: the datastore, the
\* model and the tools inside run_agent, the chat transport.
WaitingSteps ==
  {"ensure_user", "log_user", "save_user", "trim_user", "load", "agent", "log_reply",
   "save_reply", "trim_reply", "send", "except"}

\* C19: while one user's turn is waiting on an external call, a turn for a
\* different user can make progress: the handler can take up a message of
\* another user.
C19_OtherUserProceeds ==
  (hpc \in WaitingSteps /\ turns < MaxTurns) =>
    \E u \in UserIds \ {update.user_id} :
      ENABLED (Receive(u, <<"hi">>) /\ UNCHANGED agentVars)

\* --------------- two turns of one user interleave (bot/handlers.py, steps 4 to 9)

\* The text of each turn's message.
TurnText(t) == IF t = 1 THEN <<"hi">> ELSE <<"ok">>

WindowSize == Cardinality(RowsOf(minimal_context, TurnUser))

\* save_to_context of turn t: lines 77-84 and 104-110.
TurnAppend(t, text) ==
  /\ tpc[t] \in {"save_user", "save_reply"}
  /\ minimal_context' =
       save_to_context(minimal_context, TurnUser,
                       IF tpc[t] = "save_user" THEN "user" ELSE "assistant", text, clock)
  /\ clock' = clock + 1
  /\ history' = [history EXCEPT ![TurnUser] =
                   Append(@, Entry(IF tpc[t] = "save_user" THEN "user" ELSE "assistant",
                                   text, clock))]
  /\ dirty' = [dirty EXCEPT ![TurnUser] = TRUE]
  /\ peak' = IF WindowSize + 1 > peak THEN WindowSize + 1 ELSE peak
  /\ tpc' = [tpc EXCEPT ![t] = StepAfter(@)]
  /\ UNCHANGED <<context_messages, load_info>>

\* trim_context of turn t: lines 85 and 111.
TurnTrim(t) ==
  /\ tpc[t] \in {"trim_user", "trim_reply"}
  /\ minimal_context' = trim_minimal_context(minimal_context, TurnUser)
  /\ dirty' = [dirty EXCEPT ![TurnUser] = FALSE]
  /\ tpc' = [tpc EXCEPT ![t] = StepAfter(@)]
  /\ UNCHANGED <<clock, context_messages, history, load_info, peak>>

\* load_context of turn t: line 88.
TurnLoad(t) ==
  /\ tpc[t] = "load"
  /\ context_messages' = load_context(minimal_context, TurnUser)
  /\ load_info' = [user |-> TurnUser, at |-> Len(history[TurnUser]), dirty |-> dirty[TurnUser]]
  /\ tpc' = [tpc EXCEPT ![t] = StepAfter(@)]
  /\ UNCHANGED <<minimal_context, clock, history, dirty, peak>>

\* The steps of turn t that leave the window alone: run_agent, log_message
\* and the send, lines 92-101 and 114.
TurnOther(t) ==
  /\ tpc[t] \in {"agent", "log_reply", "send"}
  /\ tpc' = [tpc EXCEPT ![t] = IF @ = "send" THEN "done" ELSE StepAfter(@)]
  /\ UNCHANGED <<storeVars, peak>>

\* A call of turn t raises: the turn ends in the except clause, lines 116-120.
TurnFails(t) ==
  /\ tpc[t] \notin {"done", "failed"}
  /\ tpc' = [tpc EXCEPT ![t] = "failed"]
  /\ UNCHANGED <<storeVars, peak>>

\* Both turns are about to append their user message to a window that earlier
\* turns filled.
InitInterleaved ==
  /\ AgentInit
  /\ calendar = EmptyCalendars
  /\ StoreInitWith(PreLoaded)
  /\ PipeInit
  /\ tpc = [t \in Turns |-> "save_user"]
  /\ peak = IF PreLoaded < CONTEXT_MESSAGE_LIMIT THEN PreLoaded ELSE CONTEXT_MESSAGE_LIMIT

NextInterleaved ==
  \/ \E t \in Turns :
       \E text \in (IF tpc[t] = "save_user" THEN {TurnText(t)} ELSE AgentReplies) :
         TurnAppend(t, text) /\ UNCHANGED <<agentVars, pipeVars>>
  \/ \E t \in Turns : TurnTrim(t) /\ UNCHANGED <<agentVars, pipeVars>>
  \/ \E t \in Turns : TurnLoad(t) /\ UNCHANGED <<agentVars, pipeVars>>
  \/ \E t \in Turns : TurnOther(t) /\ UNCHANGED <<agentVars, pipeVars>>
  \/ \E t \in Turns : TurnFails(t) /\ UNCHANGED <<agentVars, pipeVars>>

SpecInterleaved == InitInterleaved /\ [][NextInterleaved]_vars

\* C20: when two turns of the same user interleave their append and trim
\* operations on the context window in any order, once both turns have
\* completed without failure the window holds at most N (10) entries, even if
\* it held more at an intermediate point.
C20_InterleavedConverges ==
  (\A t \in Turns : tpc[t] = "done") =>
    Cardinality({r \in minimal_context : r.user_id = 1}) <= 10

C20_Witness ==
  /\ \A t \in Turns : tpc[t] = "done"
  /\ peak = 12
  /\ Cardinality({r \in minimal_context : r.user_id = 1}) = 10
  /\ Len(history[1]) = PreLoaded + 4

\* ------------- one whole turn: handle_message with run_agent's loop inside it

\* Step 6: handle_message calls run_agent with the text and the formatted
\* window: handlers.py line 92.
AgentCall ==
  /\ hpc = "agent"
  /\ AgentStart(update.text, recent_conversation)

\* run_agent is left: its locals are gone.  The loop counter and the
\* variation spent stay as the record of the run.
AgentLeft ==
  /\ apc' = "idle"
  /\ user_message' = <<>>
  /\ system_prompt' = <<>>
  /\ messages' = <<>>
  /\ response' = NoResponse
  /\ block' = 0
  /\ tool_results' = <<>>
  /\ agent_result' = <<>>
  /\ model_calls' = <<>>
  /\ executions' = <<>>
  /\ UNCHANGED <<iteration, calendar, varied>>

\* run_agent returns its string to handle_message: line 92.
AgentReturns ==
  /\ apc = "returned"
  /\ RunAgent(agent_result)
  /\ AgentLeft

\* An exception leaves run_agent: control passes to the except clause of
\* handle_message, lines 116-120.
AgentRaises ==
  /\ hpc = "agent"
  /\ apc = "raised"
  /\ hpc' = "except"
  /\ Did(FALSE)
  /\ UNCHANGED <<update, recent_conversation, reply, users, chat_logs, outbox, turns,
                 handler_raised>>
  /\ UNCHANGED storeVars
  /\ AgentLeft

InitTurn ==
  /\ AgentInit
  /\ calendar = EmptyCalendars
  /\ StoreInitWith(PreLoaded)
  /\ PipeInit
  /\ TurnsInit

\* One update is handled to its end; any call of the turn may fail.
NextTurn ==
  \/ \E text \in UpdateTexts :
       turns = 0 /\ Receive(TurnUser, text) /\ UNCHANGED <<agentVars, turnVars>>
  \/ hpc # "agent" /\ StepFails /\ UNCHANGED <<agentVars, turnVars>>
  \/ EnsureUser /\ UNCHANGED <<agentVars, turnVars>>
  \/ LogMessage /\ UNCHANGED <<agentVars, turnVars>>
  \/ LogFailsLate /\ UNCHANGED <<agentVars, turnVars>>
  \/ SaveToContext /\ UNCHANGED <<agentVars, turnVars>>
  \/ SaveFailsLate /\ UNCHANGED <<agentVars, turnVars>>
  \/ TrimContext /\ UNCHANGED <<agentVars, turnVars>>
  \/ LoadContext /\ UNCHANGED <<agentVars, turnVars>>
  \/ AgentCall /\ UNCHANGED <<storeVars, pipeVars, turnVars>>
  \/ ModelAnswers /\ UNCHANGED <<storeVars, pipeVars, turnVars>>
  \/ ModelFails /\ UNCHANGED <<storeVars, pipeVars, turnVars>>
  \/ LoopExhausted /\ UNCHANGED <<storeVars, pipeVars, turnVars>>
  \/ SkipBlock /\ UNCHANGED <<storeVars, pipeVars, turnVars>>
  \/ ExecuteBlock /\ UNCHANGED <<storeVars, pipeVars, turnVars>>
  \/ FeedResults /\ UNCHANGED <<storeVars, pipeVars, turnVars>>
  \/ AgentReturns /\ UNCHANGED turnVars
  \/ AgentRaises /\ UNCHANGED turnVars
  \/ SendReply /\ UNCHANGED <<agentVars, turnVars>>
  \/ SendApology /\ UNCHANGED <<agentVars, turnVars>>
  \/ ApologyFails /\ UNCHANGED <<agentVars, turnVars>>

SpecTurn == InitTurn /\ [][NextTurn]_vars

\* The entries the turn has appended to the user's window.
AppendedInTurn == SubSeq(history[TurnUser], PreLoaded + 1, Len(history[TurnUser]))

\* In no state of the turn, whatever the message list of run_agent holds, does
\* the window or the log hold anything of the turn but the user's message and
\* then the string run_agent returned.
OnlyStartAndEnd ==
  /\ Len(AppendedInTurn) <= 2
  /\ Len(chat_logs) <= 2
  /\ Len(AppendedInTurn) >= 1 =>
       /\ AppendedInTurn[1].role = "user"
       /\ hpc # "idle" => AppendedInTurn[1].text = update.text
       /\ apc # "idle" => AppendedInTurn[1].text = user_message
  /\ Len(AppendedInTurn) = 2 =>
       /\ AppendedInTurn[2].role = "assistant"
       /\ hpc # "idle" => AppendedInTurn[2].text = reply
  /\ Len(chat_logs) >= 1 =>
       /\ chat_logs[1].role = "user"
       /\ hpc # "idle" => chat_logs[1].text = update.text
  /\ Len(chat_logs) = 2 =>
       /\ chat_logs[2].role = "assistant"
       /\ hpc # "idle" => chat_logs[2].text = reply
  /\ \A r \in minimal_context :
       \E i \in 1..Len(history[r.user_id]) :
         /\ history[r.user_id][i].role = r.role
         /\ history[r.user_id][i].text = r.text
         /\ history[r.user_id][i].timestamp = r.timestamp
  /\ apc \in {"loop", "tools", "returned", "raised"} =>
       (Len(AppendedInTurn) = 1 /\ Len(chat_logs) = 1)

\* run_agent hands handle_message its result and nothing else.
ReplyIsResult == apc = "returned" => reply' = agent_result

\* The turn has completed: the reply was sent.
TurnCompleted == trace # <<>> /\ trace[Len(trace)] = [turn |-> 1, step |-> "send", ok |-> TRUE]

\* A turn that completes has appended exactly two entries, the user message
\* and then the reply that was sent.
TwoEntriesWhenCompleted ==
  TurnCompleted =>
    /\ Len(AppendedInTurn) = 2
    /\ AppendedInTurn[1].timestamp < AppendedInTurn[2].timestamp
    /\ AppendedInTurn[2].text = outbox[Len(outbox)].text
    /\ Len(chat_logs) = 2
    /\ chat_logs[2].text = outbox[Len(outbox)].text

\* C21: a turn that completes appends exactly two entries to the user's
\* window, the user message (role user) and then the final reply (role
\* assistant), however many tool-use iterations ran; no assistant tool-request
\* message and no tool result is ever written to the window or the log.
C21_TurnPersistsStartAndEnd ==
  [](OnlyStartAndEnd /\ TwoEntriesWhenCompleted) /\ [][ReplyIsResult]_vars

C21_Witness ==
  /\ TurnCompleted
  /\ iteration = 4
  /\ Len(AppendedInTurn) = 2
  /\ AppendedInTurn[2].text = <<"Hello", " ", "there">>

\* The message list at each point of run_agent: the user's message, then per
\* tool-use iteration an assistant message and a user-role message, roles
\* alternating; while the tools of an iteration run, its second message is
\* still to come.
MessageListShape ==
  messages # <<>> =>
    /\ messages[1] = [role |-> "user", content |-> user_message]
    /\ \A i \in 1..Len(messages) :
         messages[i].role = IF i % 2 = 1 THEN "user" ELSE "assistant"
    /\ hpc = "agent" =>
         /\ user_message = update.text
         /\ recent_conversation # <<>>
         /\ \A i \in 1..Len(messages) : messages[i].content # recent_conversation
    /\ apc = "loop" => Len(messages) = 1 + 2 * iteration
    /\ apc = "tools" =>
         /\ Len(messages) = 2 * iteration
         /\ messages[Len(messages)].content = response.content
    /\ (apc = "returned" /\ response.stop_reason # "tool_use") =>
         Len(messages) = 1 + 2 * (iteration - 1)
    /\ (apc = "returned" /\ response.stop_reason = "tool_use") =>
         Len(messages) = 1 + 2 * iteration

\* The message list grows only by one message at a time: the response of a
\* tool-use iteration, then one user-role message holding all results of
\* that response, one per tool call.
MessageListStep ==
  (messages # <<>> /\ messages' # messages) =>
    \/ /\ apc = "loop"
       /\ response'.stop_reason = "tool_use"
       /\ messages' = Append(messages, [role |-> "assistant", content |-> response'.content])
    \/ /\ apc = "tools"
       /\ messages' = Append(messages, [role |-> "user", content |-> tool_results])
       /\ Len(tool_results) = Len(SelectSeq(response.content, LAMBDA b : b.type = "tool_use"))
       /\ \A i \in 1..Len(tool_results) : tool_results[i].type = "tool_result"
    \/ /\ apc \in {"returned", "raised"}
       /\ apc' = "idle"
       /\ messages' = <<>>

ModelOncePerIteration ==
  /\ apc # "idle" => Len(model_calls) = iteration
  /\ \A i \in 1..Len(model_calls) :
       /\ model_calls[i].sent = 2 * i - 1
       /\ ~model_calls[i].ok => (i = Len(model_calls) /\ apc = "raised")

\* No two entries of a sequence are equal.
NoRepeat(seq) == \A i \in 1..Len(seq) : \A j \in 1..Len(seq) : seq[i] = seq[j] => i = j

\* Every tool_use block is handed to execute_tool once: no block of a response
\* is executed twice, a round whose results were appended executed each of its
\* blocks, and one execution invokes its backing function at most once and
\* makes each of its outside calls at most once.
BlocksOncePerResponse ==
  /\ \A i \in 1..Len(executions) : \A j \in 1..Len(executions) :
       (executions[i].iteration = executions[j].iteration
        /\ executions[i].block = executions[j].block) => i = j
  /\ \A i \in 1..Len(executions) :
       /\ Len(executions[i].invoked) <= 1
       /\ NoRepeat(executions[i].api)
       /\ executions[i].raised => (i = Len(executions) /\ apc = "raised")
  /\ \A i \in AssistantIndexes :
       /\ Len(ExecutionsOf(i \div 2)) <= Len(ToolUseBlocks(messages[i].content))
       /\ i + 1 <= Len(messages) =>
            Len(ExecutionsOf(i \div 2)) = Len(ToolUseBlocks(messages[i].content))

\* No step of handle_message is taken twice in a turn, and a step that failed
\* is followed by the apology and by nothing else.
StepsOncePerTurn ==
  /\ NoRepeat([i \in 1..Len(trace) |-> trace[i].step])
  /\ \A i \in 1..Len(trace) :
       ~trace[i].ok =>
         \/ i = Len(trace) /\ (hpc = "except" \/ trace[i].step = "apology")
         \/ i = Len(trace) - 1 /\ trace[i].step # "apology" /\ trace[i + 1].step = "apology"

\* After a failure nothing is called again: a raised run_agent calls neither
\* the model nor a tool, and the except clause calls no datastore function.
NoSecondAttempt ==
  /\ (model_calls' # model_calls /\ model_calls' # <<>>) =>
       /\ Len(model_calls') = Len(model_calls) + 1
       /\ SubSeq(model_calls', 1, Len(model_calls)) = model_calls
       /\ iteration' = iteration + 1
       /\ apc = "loop"
  /\ (executions' # executions /\ executions' # <<>>) =>
       /\ Len(executions') = Len(executions) + 1
       /\ SubSeq(executions', 1, Len(executions)) = executions
       /\ executions'[Len(executions')].block = block
       /\ executions'[Len(executions')].iteration = iteration
       /\ apc = "tools"
  /\ apc = "raised" => (apc' = "idle" /\ calendar' = calendar)
  /\ hpc = "except" =>
       /\ hpc' = "idle"
       /\ UNCHANGED <<users, chat_logs, minimal_context, history, calendar>>

\* C23: nothing is retried: in one turn the model is called exactly once per
\* loop iteration, every tool call of a response is dispatched exactly once,
\* and a call that fails (tool, model or datastore) is never attempted again.
C23_NothingRetried ==
  [](ModelOncePerIteration /\ BlocksOncePerResponse /\ StepsOncePerTurn)
    /\ [][NoSecondAttempt]_vars

FailureTexts ==
  {"Unable to check availability right now. Please try again.",
   "Unable to create the booking right now. Please try again.",
   "Unable to cancel the booking right now. Please try again.",
   "Unable to search the knowledge base right now."}

\* A tool's outside call failed in the first round and the loop went on: the
\* model was called again with the failure message and the tool was not.
C23_Witness ==
  /\ apc = "tools"
  /\ Len(model_calls) = 3
  /\ Len(executions) = 2
  /\ executions[1].api # <<>>
  /\ \E k \in 1..Len(executions[1].out) : executions[1].out[k] \in FailureTexts
  /\ executions[2].iteration = 2

\* ------------------------------------------------------------- claim C24

\* The last response the budget allows asked for tools.
BudgetSpentOnTools ==
  /\ iteration = max_iterations
  /\ Len(model_calls) = max_iterations
  /\ model_calls[max_iterations].ok
  /\ response.stop_reason = "tool_use"

\* The tool calls of the last response were executed and their results are
\* the last message of the list, which no model call was sent.
LastRoundDone ==
  LET calls == ToolUseBlocks(response.content)
      done == ExecutionsOf(max_iterations)
  IN /\ Len(messages) = 2 * max_iterations + 1
     /\ messages[2 * max_iterations].content = response.content
     /\ messages[2 * max_iterations + 1].role = "user"
     /\ IdsOf(done) = IdsOf(calls)
     /\ ResultIdsOf(messages[2 * max_iterations + 1].content) = IdsOf(calls)
     /\ \A k \in 1..Len(done) :
          messages[2 * max_iterations + 1].content[k].content = done[k].out
     /\ \A i \in 1..Len(model_calls) : model_calls[i].sent < Len(messages)

BudgetExhaustedState ==
  /\ (apc = "returned" /\ BudgetSpentOnTools) => (agent_result = FALLBACK /\ LastRoundDone)
  /\ (apc = "loop" /\ iteration = max_iterations) => (BudgetSpentOnTools /\ LastRoundDone)

\* A tool call of the last round acts on the calendars as in any round, and
\* once the results are appended the loop ends without a model call.
BudgetExhaustedStep ==
  /\ (apc = "tools" /\ iteration = max_iterations /\ executions' # executions) =>
       \E env \in {DefaultEnv} \cup Envs :
         LET b == response.content[block]
             x == execute_tool(b.name, b.input, env.kb, calendar, env.fault)
         IN /\ calendar' = x.cal
            /\ executions'[Len(executions')].out = x.out
            /\ executions'[Len(executions')].api = x.api
            /\ tool_results' = Append(tool_results, ToolResultEntry(response.content, b, x.out))
  /\ (apc = "loop" /\ iteration = max_iterations) =>
       /\ apc' = "returned"
       /\ agent_result' = FALLBACK
       /\ UNCHANGED <<messages, model_calls, executions, calendar>>

\* C24: when the iteration budget is exhausted, the tool calls requested by
\* the 10th model response are still executed, with their side effects, and
\* their results appended, before run_agent returns the fallback string; those
\* results are never sent to the model.
C24_LastRoundExecuted == []BudgetExhaustedState /\ [][BudgetExhaustedStep]_vars

\* The 10th response asked for a booking: the event is in the calendar and
\* the result in the list when the fallback is returned.
C24_Witness ==
  /\ apc = "returned"
  /\ agent_result = FALLBACK
  /\ BudgetSpentOnTools
  /\ Len(executions) = max_iterations
  /\ executions[max_iterations].name = "create_booking"
  /\ Len(calendar["cal-glasshouse"]) = 1
  /\ model_calls[max_iterations].sent = 2 * max_iterations - 1

\* ------------------------------------------------------------- claim C25

\* The step whose failure took the turn to the except clause.
FailedStep == trace[Len(trace)].step

\* 1 when the newest entry of the user's window, or of the log, is an
\* assistant entry, 0 when it is not.
AssistantAppended == IF history[update.user_id][Len(history[update.user_id])].role = "assistant" THEN 1 ELSE 0
AssistantLogged == IF chat_logs[Len(chat_logs)].role = "assistant" THEN 1 ELSE 0

\* In the except clause of a turn that logged and appended the user message:
\* the user entry is in the log and in the window; no assistant entry follows
\* it when the failure came before the reply was written; the reply is in both
\* when the failure was the send of the reply.
WrittenStays ==
  (hpc = "except" /\ Passed("log_user") /\ Passed("save_user")) =>
    LET u == update.user_id
        h == history[u]
        n == Len(h)
    IN /\ n - AssistantAppended >= 1
       /\ h[n - AssistantAppended].role = "user"
       /\ h[n - AssistantAppended].text = update.text
       /\ Row(u, "user", update.text, h[n - AssistantAppended].timestamp) \in minimal_context
       /\ Len(chat_logs) - AssistantLogged >= 1
       /\ chat_logs[Len(chat_logs) - AssistantLogged] = LogRow(u, "user", update.text)
       /\ FailedStep \in {"trim_user", "load", "agent"} =>
            (AssistantAppended = 0 /\ AssistantLogged = 0)
       /\ FailedStep = "log_reply" => AssistantAppended = 0
       /\ FailedStep = "send" =>
            /\ AssistantAppended = 1
            /\ AssistantLogged = 1
            /\ h[n].text = reply
            /\ Row(u, "assistant", reply, h[n].timestamp) \in minimal_context
            /\ chat_logs[Len(chat_logs)] = LogRow(u, "assistant", reply)

\* The except clause writes to no table.
NothingUndone == hpc = "except" => UNCHANGED <<chat_logs, minimal_context, history, users>>

\* After a failed send of the reply the user is sent the apology.
ApologyAfterFailedSend ==
  (hpc = "except" /\ FailedStep = "send") =>
    outbox' = Append(outbox, [chat |-> update.user_id, text |-> APOLOGY])

EventInRange(events, first, last) ==
  \E k \in 1..Len(events) : DayOf(events[k].end) > first /\ DayOf(events[k].start) <= last

\* Call i asked for a known property, the calendar answered, and the
\* property's calendar held no event in the range asked for.
FreeAndAnswered(i) ==
  /\ executions[i].input.property_name \in DOMAIN CALENDAR_MAP
  /\ executions[i].fault = 0
  /\ executions[i].api = <<[op |-> "list", cal |-> CalendarOf(i)]>>
  /\ ~EventInRange(executions[i].before[CalendarOf(i)],
                   DayOf(executions[i].input.check_in_date),
                   DayOf(executions[i].input.check_out_date))

\* C26: check_availability fails closed: it returns available=true only when
\* the calendar query for a known property succeeded and returned no event in
\* the range; an unknown property, a calendar error, or at least one event in
\* the range always gives available=false.
C26_FailsClosed ==
  \A i \in 1..Len(executions) :
    executions[i].name = "check_availability" =>
      /\ ~executions[i].raised
      /\ executions[i].after = executions[i].before
      /\ Reports(executions[i].ret, "available", TRUE) => FreeAndAnswered(i)
      /\ ~FreeAndAnswered(i) =>
           /\ Reports(executions[i].ret, "available", FALSE)
           /\ ~Reports(executions[i].ret, "available", TRUE)

\* The calendar failed on a query about a free property, an unknown property
\* was asked about, and a free property was reported free.
C26_Witness ==
  /\ Len(executions) = 3
  /\ \A i \in 1..3 : executions[i].name = "check_availability"
  /\ executions[1].fault = 1
  /\ executions[1].input.property_name = "The Barn Loft"
  /\ executions[1].before = EmptyCalendars
  /\ Reports(executions[1].ret, "available", FALSE)
  /\ executions[2].input.property_name = "Atlantis"
  /\ Reports(executions[2].ret, "available", FALSE)
  /\ executions[3].input.property_name = "The Barn Loft"
  /\ Reports(executions[3].ret, "available", TRUE)

\* ------------------------------------------------------------- claim C27

\* C27: create_booking and cancel_booking called with a property name outside
\* the enumerated set return success=false and leave every calendar unchanged,
\* making no calendar call.
C27_UnknownPropertyRefused ==
  \A i \in 1..Len(executions) :
    (/\ executions[i].name \in {"create_booking", "cancel_booking"}
     /\ executions[i].input.property_name \notin DOMAIN CALENDAR_MAP) =>
      /\ ~executions[i].raised
      /\ Reports(executions[i].ret, "success", FALSE)
      /\ ~Reports(executions[i].ret, "success", TRUE)
      /\ executions[i].after = executions[i].before
      /\ executions[i].api = <<>>

\* A booking and a cancellation for a property that does not exist, asked for
\* while a calendar holds a booking of the same guest and day.
C27_Witness ==
  /\ Len(executions) = 3
  /\ executions[1].name = "create_booking"
  /\ executions[1].input.property_name = "The Glasshouse"
  /\ Reports(executions[1].ret, "success", TRUE)
  /\ executions[2].name = "create_booking"
  /\ executions[2].input.property_name = "Atlantis"
  /\ executions[3].name = "cancel_booking"
  /\ executions[3].input.property_name = "Atlantis"
  /\ executions[3].fault = 0
  /\ calendar = executions[1].after
  /\ calendar # executions[1].before

\* ------------------------------------------------------------- claim C28

\* The places in the calendar's events of those that cover the day and carry
\* the guest name.
MatchesOn(events, day, guest_name) ==
  {k \in 1..Len(events) :
     /\ DayOf(events[k].end) > day
     /\ DayOf(events[k].start) <= day
     /\ QMatches(events[k], guest_name)}

FirstOf(places) == CHOOSE k \in places : \A j \in places : k <= j

\* The sequence without its k-th entry.
WithoutEntry(seq, k) == SubSeq(seq, 1, k - 1) \o SubSeq(seq, k + 1, Len(seq))

\* What the cancel_booking of call i found in the calendar it names.
CancelMatches(i) ==
  MatchesOn(executions[i].before[CalendarOf(i)], DayOf(executions[i].input.check_in_date),
            executions[i].input.guest_name)

\* C28: one cancel_booking call deletes at most one event, and only from the
\* calendar of the named property: the first event matching the guest name
\* within the check-in day window.  When no event matches it deletes nothing
\* and returns success=false; events of other properties and other matching
\* events are left unchanged.
C28_CancelDeletesFirstMatch ==
  \A i \in 1..Len(executions) :
    executions[i].name = "cancel_booking" =>
      IF executions[i].input.property_name \notin DOMAIN CALENDAR_MAP
      THEN executions[i].after = executions[i].before
      ELSE
        /\ \A c \in DOMAIN executions[i].before :
             c # CalendarOf(i) => executions[i].after[c] = executions[i].before[c]
        /\ \/ executions[i].after = executions[i].before
           \/ /\ CancelMatches(i) # {}
              /\ executions[i].after[CalendarOf(i)] =
                   WithoutEntry(executions[i].before[CalendarOf(i)], FirstOf(CancelMatches(i)))
        /\ Reports(executions[i].ret, "success", TRUE) =>
             /\ CancelMatches(i) # {}
             /\ Len(executions[i].after[CalendarOf(i)]) =
                  Len(executions[i].before[CalendarOf(i)]) - 1
        /\ CancelMatches(i) = {} =>
             /\ executions[i].after = executions[i].before
             /\ Reports(executions[i].ret, "success", FALSE)
        /\ (CancelMatches(i) # {} /\ executions[i].fault = 0) =>
             /\ Reports(executions[i].ret, "success", TRUE)
             /\ executions[i].api = <<[op |-> "list", cal |-> CalendarOf(i)],
                                      [op |-> "delete", cal |-> CalendarOf(i)]>>

\* Two bookings of Ann cover the day in The Glasshouse and Ann has one in The
\* Barn Loft: the cancellation removed the first of the two and nothing else.
C28_Witness ==
  /\ Len(executions) = 3
  /\ executions[3].name = "cancel_booking"
  /\ executions[3].input.property_name = "The Glasshouse"
  /\ Reports(executions[3].ret, "success", TRUE)
  /\ Cardinality(CancelMatches(3)) = 2
  /\ Len(executions[3].before["cal-barn-loft"]) = 1
  /\ Len(calendar["cal-barn-loft"]) = 1
  /\ Len(calendar["cal-glasshouse"]) = 1
  /\ calendar["cal-glasshouse"][1] = executions[3].before["cal-glasshouse"][2]

\* ------------------------------------------------------------- claim C29

\* Execution i is of a registered tool and its arguments hold every field
\* that execute_tool reads by key.
KeyedFieldsPresent(i) ==
  /\ executions[i].name \in ToolNames
  /\ FirstMissing(executions[i].name, executions[i].input) = 0

\* The tool of execution i takes a property name.
TakesProperty(i) ==
  \E k \in 1..Len(KeyedFields(executions[i].name)) :
    KeyedFields(executions[i].name)[k] = "property_name"

\* C29 as stated: when every field that execute_tool reads by key is present
\* in the arguments of a registered tool, execute_tool never returns a
\* "Tool failed:" payload.
C29_NeverToolFailed ==
  \A i \in 1..Len(executions) : KeyedFieldsPresent(i) => ~IsToolFailed(executions[i].out)

\* The string is a JSON mapping whose first key is key, with the value false.
FalseUnder(out, key) ==
  /\ Len(out) >= 6
  /\ SubSeq(out, 1, 6) = <<"{", "\"", key, "\"", ": ", "false">>

\* What execute_tool returned names a failure of the service in the words of
\* the backing function: a plain string from search_knowledge_base, a mapping
\* with available=false or success=false from a calendar function.
OwnFailureMessage(i) ==
  (\E k \in 1..Len(executions[i].out) : executions[i].out[k] \in FailureTexts) =>
    CASE executions[i].name = "search_knowledge_base" ->
           executions[i].out = <<"Unable to search the knowledge base right now.">>
      [] executions[i].name = "check_availability" ->
           FalseUnder(executions[i].out, "available")
      [] OTHER -> FalseUnder(executions[i].out, "success")

\* C29: when every field that execute_tool reads by key is present in the
\* arguments of a registered tool, and the property name, where the tool takes
\* one, is a string, execute_tool never returns a "Tool failed:" payload, even
\* if the backing service call fails: the backing function was invoked,
\* caught its own exception and returned its own failure message.
C29_NoToolFailedForStrings ==
  \A i \in 1..Len(executions) :
    (/\ KeyedFieldsPresent(i)
     /\ TakesProperty(i) => executions[i].input.property_name \notin Unhashable) =>
      /\ ~IsToolFailed(executions[i].out)
      /\ ~executions[i].raised
      /\ executions[i].invoked = <<executions[i].name>>
      /\ OwnFailureMessage(i)

\* The insert request of a booking with every field present failed.
C29_Witness ==
  /\ Len(executions) = 1
  /\ executions[1].name = "create_booking"
  /\ KeyedFieldsPresent(1)
  /\ executions[1].input.property_name = "The Glasshouse"
  /\ executions[1].api = <<[op |-> "insert", cal |-> "cal-glasshouse"]>>
  /\ FalseUnder(executions[1].out, "success")
  /\ \E k \in 1..Len(executions[1].out) :
       executions[1].out[k] = "Unable to create the booking right now. Please try again."
  /\ calendar = EmptyCalendars

====
